---- MODULE Spec2Model ----
(***************************************************************************)
(* Model of the multi-cluster manager (mcm): the configuration loader      *)
(* (internal/config), the cluster connection registry (internal/cluster)   *)
(* and the workload fan-out executors (internal/workload).                 *)
(*                                                                         *)
(* Conventions.  A Go error is a sequence of message parts, outermost      *)
(* first; the nil error is the empty sequence.  fmt.Errorf("m: %w", e) is  *)
(* <<"m">> \o e.  A Go string that is printed from an error is the same    *)
(* sequence of parts, and "" is <<>>.  A Go pointer that may be nil is a   *)
(* sequence of length 0 (nil) or 1.  A file path is its sequence of        *)
(* segments.  A Go map is a function; ranging over it visits the keys in   *)
(* an order the runtime chooses.                                           *)
(***************************************************************************)
EXTENDS Integers, Sequences, FiniteSets, TLC

\* ------------------------------------------------------------------ bounds

\* Largest number of clusters in a configuration file.
MaxClusters == 2

\* ------------------------------------------------------- generic helpers

Nil == <<>>

Range(s) == { s[i] : i \in DOMAIN s }

Perms(S) == { p \in [1..Cardinality(S) -> S] : Range(p) = S }

RECURSIVE JoinLines(_)
\* strings.Join(lines, "\n") on message lines.
JoinLines(lines) ==
    IF Len(lines) = 0 THEN <<>> ELSE Head(lines) \o JoinLines(Tail(lines))

\* ------------------------------------------------------------ the inputs

\* Cluster names, kubectl contexts and kubeconfig paths that configuration
\* files use; entry i of a file is cluster i of the pool.
NamePool == <<"alpha", "beta", "gamma", "delta">>

KubeConfigPool ==
    << <<>>, <<"/", "etc", "mcm", "beta-config">>,
       <<"~", ".kube", "gamma-config">>, <<>> >>

PoolSize == Len(NamePool)

\* A name no configuration holds.
UnknownName == "ghost"

HomeDir == <<"/", "home", "user">>

\* config.ClusterConfig, the fields the registry reads.
ClusterConfigAt(i, isDefault) ==
    [ Name       |-> NamePool[i],
      Context    |-> NamePool[i],
      KubeConfig |-> KubeConfigPool[i],
      IsDefault  |-> isDefault ]

\* The global settings a file may or may not give.
GlobalSettings ==
    { [DefaultNamespace |-> "", Timeout |-> 0],
      [DefaultNamespace |-> "test", Timeout |-> 60] }

\* config.MultiClusterConfig values a caller can hand over, before
\* validation: any number of clusters, any default marks.
RawConfigs ==
    { [ Clusters         |-> [i \in 1..n |-> ClusterConfigAt(i, f[i])],
        DefaultNamespace |-> g.DefaultNamespace,
        Timeout          |-> g.Timeout ] :
      n \in 0..(IF MaxClusters < PoolSize THEN MaxClusters ELSE PoolSize),
      f \in [1..PoolSize -> BOOLEAN],
      g \in GlobalSettings }

AllKubeConfigPaths == Range(KubeConfigPool) \ {<<>>}

\* -------------------------------------------------- internal/config loader

RECURSIVE validateClustersAllowsDuplicates(_, _, _, _)
\* Faulty variant: a repeated name is let through.
validateClustersAllowsDuplicates(clusters, i, seen, fs) ==
    IF i > Len(clusters) THEN Nil
    ELSE LET cluster == clusters[i] IN
         IF cluster.Name = "" THEN <<"cluster has no name">>
         ELSE IF cluster.Context = ""
              THEN <<"cluster has no context specified", cluster.Name>>
         ELSE IF cluster.KubeConfig # <<>> /\ cluster.KubeConfig \notin fs
              THEN <<"kubeconfig file not found for cluster", cluster.Name>>
         ELSE validateClustersAllowsDuplicates(clusters, i + 1,
                                               seen \cup {cluster.Name}, fs)

RECURSIVE validateClusters(_, _, _, _)
\* The loop of validateConfig from index i on; seen is clusterNames.
validateClusters(clusters, i, seen, fs) ==
    IF i > Len(clusters) THEN Nil
    ELSE LET cluster == clusters[i] IN
         IF cluster.Name = "" THEN <<"cluster has no name">>
         ELSE IF cluster.Context = ""
              THEN <<"cluster has no context specified", cluster.Name>>
         ELSE IF cluster.Name \in seen
              THEN <<"duplicate cluster name", cluster.Name>>
         ELSE IF cluster.KubeConfig # <<>> /\ cluster.KubeConfig \notin fs
              THEN <<"kubeconfig file not found for cluster", cluster.Name>>
         ELSE validateClusters(clusters, i + 1, seen \cup {cluster.Name}, fs)

\* validateConfig; fs is the set of paths os.Stat finds.
validateConfig(cfg, fs) ==
    IF Len(cfg.Clusters) = 0 THEN <<"no clusters defined in configuration">>
    ELSE validateClusters(cfg.Clusters, 1, {}, fs)

\* Faulty variant: the first cluster is not marked when none is.
setDefaultsSkipsDefaultMark(cfg) ==
    [ cfg EXCEPT
        !.DefaultNamespace = IF @ = "" THEN "default" ELSE @,
        !.Timeout          = IF @ = 0 THEN 30 ELSE @ ]

\* Faulty variant: the timeout is set to 30 whatever the file gives.
setDefaultsOverwritesTimeout(cfg) ==
    LET hasDefault == \E i \in DOMAIN cfg.Clusters : cfg.Clusters[i].IsDefault
    IN  [ cfg EXCEPT
            !.DefaultNamespace = IF @ = "" THEN "default" ELSE @,
            !.Timeout          = 30,
            !.Clusters         =
                IF ~hasDefault /\ Len(cfg.Clusters) > 0
                THEN [@ EXCEPT ![1].IsDefault = TRUE]
                ELSE @ ]

\* setDefaults on the parsed configuration.
setDefaults(cfg) ==
    LET hasDefault == \E i \in DOMAIN cfg.Clusters : cfg.Clusters[i].IsDefault
    IN  [ cfg EXCEPT
            !.DefaultNamespace = IF @ = "" THEN "default" ELSE @,
            !.Timeout          = IF @ = 0 THEN 30 ELSE @,
            !.Clusters         =
                IF ~hasDefault /\ Len(cfg.Clusters) > 0
                THEN [@ EXCEPT ![1].IsDefault = TRUE]
                ELSE @ ]

\* ---------------------------------------------- internal/cluster registry

\* What the machine and the network answer during one connection attempt.
ConnectEnvs ==
    [ home : BOOLEAN, load : BOOLEAN, newClient : BOOLEAN, probe : BOOLEAN ]

HasTildePrefix(path) == Len(path) >= 2 /\ path[1] = "~"

\* connectToCluster: the *ClusterClient one attempt produces.
connectToCluster(cc, env) ==
    LET failed(msg) ==
            [ Config |-> cc, Connected |-> FALSE, Error |-> <<msg>>,
              Clientset |-> FALSE ]
        path1 == IF cc.KubeConfig = <<>>
                 THEN HomeDir \o <<".kube", "config">>
                 ELSE cc.KubeConfig
    IN  IF cc.KubeConfig = <<>> /\ ~env.home
        THEN failed("cannot determine home directory")
        ELSE IF HasTildePrefix(path1) /\ ~env.home
        THEN failed("cannot expand tilde in path")
        ELSE IF ~env.load THEN failed("failed to load kubeconfig")
        ELSE IF ~env.newClient THEN failed("failed to create Kubernetes client")
        ELSE IF ~env.probe THEN failed("failed to connect to cluster")
        ELSE [ Config |-> cc, Connected |-> TRUE, Error |-> Nil,
               Clientset |-> TRUE ]

\* Every client an attempt on cc can produce.
ClientsOf(cc) == { connectToCluster(cc, env) : env \in ConnectEnvs }

\* Faulty variant: a configured cluster's client is returned whether or not
\* it is connected.
GetClientIgnoresConnected(cl, clusterName) ==
    IF clusterName \notin DOMAIN cl
    THEN [ client |-> Nil, err |-> <<"cluster not found in configuration", clusterName>> ]
    ELSE [ client |-> <<cl[clusterName]>>, err |-> Nil ]

\* Manager.GetClient on a clients map.
GetClient(cl, clusterName) ==
    IF clusterName \notin DOMAIN cl
    THEN [ client |-> Nil, err |-> <<"cluster not found in configuration", clusterName>> ]
    ELSE IF ~cl[clusterName].Connected
    THEN [ client |-> Nil,
           err |-> <<"cluster is not connected", clusterName>> \o cl[clusterName].Error ]
    ELSE [ client |-> <<cl[clusterName]>>, err |-> Nil ]

\* The ClusterStatus ListClusters builds for one client.
StatusOf(client) ==
    [ Name      |-> client.Config.Name,
      Connected |-> client.Connected,
      IsDefault |-> client.Config.IsDefault,
      Error     |-> IF client.Error # Nil THEN client.Error ELSE <<>> ]

\* Manager.ListClusters: one status per map entry, in each order a range
\* over the map can take.
ListClusters(cl) ==
    { [i \in 1..Cardinality(DOMAIN cl) |-> StatusOf(cl[p[i]])] :
      p \in Perms(DOMAIN cl) }

\* Index of the first configured cluster marked default, 0 when none is.
FirstDefault(clusters) ==
    IF \E i \in DOMAIN clusters : clusters[i].IsDefault
    THEN CHOOSE i \in DOMAIN clusters :
            /\ clusters[i].IsDefault
            /\ \A j \in 1..(i - 1) : ~clusters[j].IsDefault
    ELSE 0

\* Faulty variant: an unconnected default falls back to any connected cluster.
GetDefaultClientWithFallback(cfg, cl) ==
    LET d == FirstDefault(cfg.Clusters)
        viaDefault == IF d # 0 THEN GetClient(cl, cfg.Clusters[d].Name)
                      ELSE [client |-> Nil, err |-> <<"none">>]
        connected == { n \in DOMAIN cl : cl[n].Connected }
    IN  IF d # 0 /\ viaDefault.err = Nil THEN {viaDefault}
        ELSE IF connected # {}
        THEN { [client |-> <<cl[n]>>, err |-> Nil] : n \in connected }
        ELSE { [client |-> Nil, err |-> <<"no connected clusters available">>] }

\* Faulty variant: the last cluster marked default is the one resolved.
GetDefaultClientLastMarked(cfg, cl) ==
    LET marked == { i \in DOMAIN cfg.Clusters : cfg.Clusters[i].IsDefault }
        connected == { n \in DOMAIN cl : cl[n].Connected }
    IN  IF marked # {}
        THEN { GetClient(cl, cfg.Clusters[CHOOSE i \in marked :
                                             \A j \in marked : j <= i].Name) }
        ELSE IF connected # {}
        THEN { [client |-> <<cl[n]>>, err |-> Nil] : n \in connected }
        ELSE { [client |-> Nil, err |-> <<"no connected clusters available">>] }

\* Manager.GetDefaultClient: the results it can return.
GetDefaultClient(cfg, cl) ==
    LET d == FirstDefault(cfg.Clusters)
        connected == { n \in DOMAIN cl : cl[n].Connected }
    IN  IF d # 0 THEN { GetClient(cl, cfg.Clusters[d].Name) }
        ELSE IF connected # {}
        THEN { [client |-> <<cl[n]>>, err |-> Nil] : n \in connected }
        ELSE { [client |-> Nil, err |-> <<"no connected clusters available">>] }


\* Faulty variant: the loop stops at the first probe that fails.
TestConnectionsStopsAtFirstFailure(cl, order, failing) ==
    LET probed == SelectSeq(order, LAMBDA n : cl[n].Connected)
        bad    == SelectSeq(probed, LAMBDA n : n \in failing)
        first  == IF Len(bad) > 0 THEN <<bad[1]>> ELSE <<>>
        errors == [i \in 1..Len(first) |-> <<"Cluster", first[i], "probe failed">>]
    IN  [ failing |-> failing,
          probed  |-> probed,
          errors  |-> errors,
          err     |-> IF Len(errors) > 0
                      THEN <<"connection test failed">> \o JoinLines(errors)
                      ELSE Nil ]

\* Manager.TestConnections: probes every connected client in map order;
\* failing is the set of clusters whose probe fails.
TestConnections(cl, order, failing) ==
    LET probed == SelectSeq(order, LAMBDA n : cl[n].Connected)
        bad    == SelectSeq(probed, LAMBDA n : n \in failing)
        errors == [i \in 1..Len(bad) |-> <<"Cluster", bad[i], "probe failed">>]
    IN  [ failing |-> failing,
          probed  |-> probed,
          errors  |-> errors,
          err     |-> IF Len(errors) > 0
                      THEN <<"connection test failed">> \o JoinLines(errors)
                      ELSE Nil ]

\* -------------------------------------------- internal/workload, queries

\* Largest number of names a caller passes as targets.
MaxTargets == 2

\* The names a caller can write: the pool's names in use and an unknown one.
TargetNames ==
    { NamePool[i] : i \in 1..(IF MaxClusters < PoolSize THEN MaxClusters ELSE PoolSize) }
        \cup {UnknownName}

\* Target lists; a name can occur twice.
TargetLists == UNION { [1..n -> TargetNames] : n \in 0..MaxTargets }

\* The namespace a caller asks for ("" would be all namespaces).
Namespaces == {"prod"}

\* The deployments each remote cluster holds (Spec.Replicas, Status.ReadyReplicas
\* and the first container image), and its pods.
RemoteDeployments ==
    [ n \in Range(NamePool) |->
        CASE n = "alpha" -> << [Namespace |-> "prod", Name |-> "web", Replicas |-> 2,
                                ReadyReplicas |-> 2, Containers |-> <<"web:1">>],
                               [Namespace |-> "dev", Name |-> "api", Replicas |-> 2,
                                ReadyReplicas |-> 1, Containers |-> <<>>] >>
          [] n = "beta"  -> << >>
          [] n = "gamma" -> << [Namespace |-> "prod", Name |-> "db", Replicas |-> 1,
                                ReadyReplicas |-> 0, Containers |-> <<"db:2">>] >>
          [] OTHER       -> << [Namespace |-> "prod", Name |-> "web", Replicas |-> 1,
                                ReadyReplicas |-> 1, Containers |-> <<"web:1">>] >> ]

RemotePods ==
    [ n \in Range(NamePool) |->
        CASE n = "alpha" -> << [Namespace |-> "prod", Name |-> "web-0", Phase |-> "Running",
                                Containers |-> 1, Ready |-> <<TRUE>>,
                                RestartCount |-> <<2>>, NodeName |-> "node-1"] >>
          [] n = "beta"  -> << [Namespace |-> "prod", Name |-> "job-0", Phase |-> "Pending",
                                Containers |-> 2, Ready |-> <<FALSE, FALSE>>,
                                RestartCount |-> <<0, 1>>, NodeName |-> ""],
                               [Namespace |-> "dev", Name |-> "api-0", Phase |-> "Running",
                                Containers |-> 1, Ready |-> <<TRUE>>,
                                RestartCount |-> <<0>>, NodeName |-> "node-2"] >>
          [] OTHER       -> << >> ]

\* What the API server returns for a List in a namespace ("" is all).
InNamespace(items, namespace) ==
    SelectSeq(items, LAMBDA it : namespace = "" \/ it.Namespace = namespace)

\* The status branch of getDeploymentsFromCluster.
deploymentStatus(readyReplicas, replicas) ==
    IF readyReplicas = replicas THEN "Ready"
    ELSE IF readyReplicas > 0 THEN "Partial"
    ELSE IF readyReplicas = 0 THEN "NotReady"
    ELSE "Unknown"

ZeroDeploymentInfo ==
    [ ClusterName |-> "", Namespace |-> "", Name |-> "", Replicas |-> 0,
      ReadyReplicas |-> 0, Image |-> "", Status |-> "", Error |-> <<>> ]

\* Faulty variant: a failing cluster contributes no entry.
getDeploymentsFromClusterOmitsFailures(cl, clusterName, namespace, listOK) ==
    LET r == GetClient(cl, clusterName) IN
    IF r.err # Nil \/ ~listOK THEN << >>
    ELSE LET items == InNamespace(RemoteDeployments[clusterName], namespace) IN
         [ i \in 1..Len(items) |->
             [ ZeroDeploymentInfo EXCEPT
                 !.ClusterName = clusterName, !.Namespace = items[i].Namespace,
                 !.Name = items[i].Name, !.Replicas = items[i].Replicas,
                 !.ReadyReplicas = items[i].ReadyReplicas,
                 !.Image = IF Len(items[i].Containers) > 0
                           THEN items[i].Containers[1] ELSE "unknown",
                 !.Status = deploymentStatus(items[i].ReadyReplicas, items[i].Replicas) ] ]

\* getDeploymentsFromCluster; listOK is whether the remote List call succeeds
\* within its 30 s timeout.
getDeploymentsFromCluster(cl, clusterName, namespace, listOK) ==
    LET r == GetClient(cl, clusterName) IN
    IF r.err # Nil
    THEN << [ ZeroDeploymentInfo EXCEPT
                !.ClusterName = clusterName,
                !.Error = <<"Failed to get cluster client">> \o r.err ] >>
    ELSE IF ~listOK
    THEN << [ ZeroDeploymentInfo EXCEPT
                !.ClusterName = clusterName,
                !.Error = <<"Failed to list deployments", "list error">> ] >>
    ELSE LET items == InNamespace(RemoteDeployments[clusterName], namespace) IN
         [ i \in 1..Len(items) |->
             [ ZeroDeploymentInfo EXCEPT
                 !.ClusterName = clusterName, !.Namespace = items[i].Namespace,
                 !.Name = items[i].Name, !.Replicas = items[i].Replicas,
                 !.ReadyReplicas = items[i].ReadyReplicas,
                 !.Image = IF Len(items[i].Containers) > 0
                           THEN items[i].Containers[1] ELSE "unknown",
                 !.Status = deploymentStatus(items[i].ReadyReplicas, items[i].Replicas) ] ]

RECURSIVE SumSeq(_)
SumSeq(s) == IF Len(s) = 0 THEN 0 ELSE Head(s) + SumSeq(Tail(s))

ZeroPodInfo ==
    [ ClusterName |-> "", Namespace |-> "", Name |-> "", Status |-> <<>>,
      Ready |-> <<0, 0>>, Restarts |-> 0, Node |-> "" ]

\* getPodsFromCluster; a failure is a PodInfo named "error" whose Status
\* carries the message.
getPodsFromCluster(cl, clusterName, namespace, listOK) ==
    LET r == GetClient(cl, clusterName) IN
    IF r.err # Nil
    THEN << [ ZeroPodInfo EXCEPT
                !.ClusterName = clusterName, !.Name = "error",
                !.Status = <<"Failed to get cluster client">> \o r.err ] >>
    ELSE IF ~listOK
    THEN << [ ZeroPodInfo EXCEPT
                !.ClusterName = clusterName, !.Name = "error",
                !.Status = <<"Failed to list pods", "list error">> ] >>
    ELSE LET items == InNamespace(RemotePods[clusterName], namespace) IN
         [ i \in 1..Len(items) |->
             [ ZeroPodInfo EXCEPT
                 !.ClusterName = clusterName, !.Namespace = items[i].Namespace,
                 !.Name = items[i].Name, !.Status = <<items[i].Phase>>,
                 !.Ready = << Len(SelectSeq(items[i].Ready, LAMBDA b : b)),
                              items[i].Containers >>,
                 !.Restarts = SumSeq(items[i].RestartCount),
                 !.Node = IF items[i].NodeName = "" THEN "unscheduled"
                          ELSE items[i].NodeName ] ]

\* How one target's query ended: the handle lookup failed, the remote List
\* call failed, or the cluster listed its items.
listOutcome(cl, clusterName, listOK) ==
    IF GetClient(cl, clusterName).err # Nil THEN "lookup failed"
    ELSE IF ~listOK THEN "list failed"
    ELSE "listed"

\* The per-cluster function the named listing runs in each worker.
getFromCluster(op, cl, clusterName, namespace, listOK) ==
    IF op = "ListDeployments"
    THEN getDeploymentsFromCluster(cl, clusterName, namespace, listOK)
    ELSE getPodsFromCluster(cl, clusterName, namespace, listOK)

\* Faulty variant: with no names given, every configured cluster is a target.
resolveTargetsAllConfigured(names, statuses) ==
    IF Len(names) = 0
    THEN [ i \in 1..Len(statuses) |-> statuses[i].Name ]
    ELSE names

\* The head of ListDeployments and ListPods: with no names given, the names
\* of the connected clusters, in the order ListClusters returned them.
resolveTargets(names, statuses) ==
    IF Len(names) = 0
    THEN LET conn == SelectSeq(statuses, LAMBDA st : st.Connected)
         IN  [ i \in 1..Len(conn) |-> conn[i].Name ]
    ELSE names

\* ------------------------------------------ internal/workload, deployments

\* The manifests a caller can pass as yamlContent: whether yaml.Unmarshal
\* accepts the text, its kind (absent: Nil), whether it unmarshals into an
\* appsv1.Deployment, and the image it asks for.
Manifests ==
    { [ parses |-> FALSE, kind |-> Nil, typed |-> FALSE, image |-> "" ],
      [ parses |-> TRUE, kind |-> Nil, typed |-> FALSE, image |-> "" ],
      [ parses |-> TRUE, kind |-> <<"Service">>, typed |-> FALSE, image |-> "" ],
      [ parses |-> TRUE, kind |-> <<"Deployment">>, typed |-> FALSE, image |-> "app:2" ],
      [ parses |-> TRUE, kind |-> <<"Deployment">>, typed |-> TRUE, image |-> "app:2" ] }

\* The object the manifest names, as each remote cluster holds it when the
\* call starts.
RemoteObjects ==
    [ n \in Range(NamePool) |->
        IF n = "alpha"
        THEN [ exists |-> TRUE, resourceVersion |-> 1, image |-> "app:1" ]
        ELSE [ exists |-> FALSE, resourceVersion |-> 0, image |-> "" ] ]

\* Faulty variant: a manifest of another kind is handled as a Deployment.
deployPrecheckAcceptsAnyKind(cl, clusterName, yaml) ==
    LET r == GetClient(cl, clusterName) IN
    IF r.err # Nil THEN <<"failed to get cluster client for", clusterName>> \o r.err
    ELSE IF ~yaml.parses THEN <<"failed to parse YAML">>
    ELSE IF yaml.kind = Nil THEN <<"YAML must specify a 'kind' field">>
    ELSE IF yaml.kind = <<"Deployment">> /\ ~yaml.typed
         THEN <<"failed to parse Deployment YAML">>
    ELSE Nil

\* DeployToCluster up to the switch on kind: the error it returns before any
\* remote call, Nil when it goes on to the Get.
deployPrecheck(cl, clusterName, yaml) ==
    LET r == GetClient(cl, clusterName) IN
    IF r.err # Nil THEN <<"failed to get cluster client for", clusterName>> \o r.err
    ELSE IF ~yaml.parses THEN <<"failed to parse YAML">>
    ELSE IF yaml.kind = Nil THEN <<"YAML must specify a 'kind' field">>
    ELSE IF yaml.kind = <<"Deployment">>
         THEN IF ~yaml.typed THEN <<"failed to parse Deployment YAML">> ELSE Nil
    ELSE <<"resource kind is not supported yet">> \o yaml.kind

\* No Get made yet.
NoGet == [ outcome |-> "none", resourceVersion |-> 0 ]

\* The API server's answer to Get: the object and its resource version, a
\* not-found error, or another error (timeout, permission, server error).
remoteGet(getOK, obj) ==
    IF ~getOK THEN [ outcome |-> "error", resourceVersion |-> 0 ]
    ELSE IF obj.exists
    THEN [ outcome |-> "found", resourceVersion |-> obj.resourceVersion ]
    ELSE [ outcome |-> "not found", resourceVersion |-> 0 ]

\* The branch DeployToCluster takes after the Get: err == nil means the
\* object was found; every error, not-found or other, leads to Create.
branchAfterGet(getOK, obj) ==
    IF getOK /\ obj.exists THEN "updating" ELSE "creating"

\* Faulty variant: the server applies an Update whatever version it carries.
remoteUpdateIgnoresVersion(obj, rv, image, callOK) ==
    IF ~callOK THEN [ obj |-> obj, err |-> <<"failed to update deployment", "server error">> ]
    ELSE IF ~obj.exists
    THEN [ obj |-> obj, err |-> <<"failed to update deployment", "not found">> ]
    ELSE [ obj |-> [ exists |-> TRUE, resourceVersion |-> obj.resourceVersion + 1,
                     image |-> image ],
           err |-> Nil ]

\* The API server's answer to Update with the carried resource version.
remoteUpdate(obj, rv, image, callOK) ==
    IF ~callOK THEN [ obj |-> obj, err |-> <<"failed to update deployment", "server error">> ]
    ELSE IF ~obj.exists
    THEN [ obj |-> obj, err |-> <<"failed to update deployment", "not found">> ]
    ELSE IF obj.resourceVersion # rv
    THEN [ obj |-> obj, err |-> <<"failed to update deployment", "conflict">> ]
    ELSE [ obj |-> [ exists |-> TRUE, resourceVersion |-> obj.resourceVersion + 1,
                     image |-> image ],
           err |-> Nil ]

\* The API server's answer to Create.
remoteCreate(obj, image, callOK) ==
    IF ~callOK THEN [ obj |-> obj, err |-> <<"failed to create deployment", "server error">> ]
    ELSE IF obj.exists
    THEN [ obj |-> obj, err |-> <<"failed to create deployment", "already exists">> ]
    ELSE [ obj |-> [ exists |-> TRUE, resourceVersion |-> 1, image |-> image ],
           err |-> Nil ]

\* ------------------------------------------------- cmd/mcm, the deploy command

\* A flag that takes a comma-separated list is the sequence of the pieces
\* between its commas; the empty string is the empty sequence, and a piece
\* that is blank after strings.TrimSpace is "".
parseClusterList(clusterString) ==
    IF clusterString = <<>> THEN <<>>
    ELSE SelectSeq(clusterString, LAMBDA cluster : cluster # "")

\* The first index of names whose client GetClient refuses, 0 when there is
\* none.
FirstUnavailable(cl, names) ==
    IF \E i \in DOMAIN names : GetClient(cl, names[i]).err # Nil
    THEN CHOOSE i \in DOMAIN names :
            /\ GetClient(cl, names[i]).err # Nil
            /\ \A j \in 1..(i - 1) : GetClient(cl, names[j]).err = Nil
    ELSE 0

\* The tail of parseDeploymentTargets: no target is an error.
targetsOrNone(targetClusters) ==
    IF Len(targetClusters) = 0
    THEN [ targets |-> <<>>, err |-> <<"no target clusters identified for deployment">> ]
    ELSE [ targets |-> targetClusters, err |-> Nil ]

\* Faulty variant: a named cluster that is not available is left out and the
\* others are deployed to.
parseDeploymentTargetsSkipsUnavailable(flags, cl, statuses, dflt) ==
    LET excludeList == parseClusterList(flags.exclude) IN
    IF flags.allClusters
    THEN LET conn == SelectSeq(statuses, LAMBDA st :
                        st.Connected /\ st.Name \notin Range(excludeList))
         IN  targetsOrNone([ i \in 1..Len(conn) |-> conn[i].Name ])
    ELSE IF flags.clusters # <<>>
    THEN targetsOrNone(SelectSeq(parseClusterList(flags.clusters),
                                 LAMBDA n : GetClient(cl, n).err = Nil))
    ELSE IF dflt.err # Nil
    THEN [ targets |-> <<>>,
           err |-> <<"no default cluster available and no clusters specified">>
                      \o dflt.err ]
    ELSE targetsOrNone(<<dflt.client[1].Config.Name>>)

\* parseDeploymentTargets; statuses is what ListClusters returns and dflt
\* what GetDefaultClient returns, were they called.
parseDeploymentTargets(flags, cl, statuses, dflt) ==
    LET excludeList == parseClusterList(flags.exclude) IN
    IF flags.allClusters
    THEN LET conn == SelectSeq(statuses, LAMBDA st :
                        st.Connected /\ st.Name \notin Range(excludeList))
         IN  targetsOrNone([ i \in 1..Len(conn) |-> conn[i].Name ])
    ELSE IF flags.clusters # <<>>
    THEN LET targetClusters == parseClusterList(flags.clusters)
             bad == FirstUnavailable(cl, targetClusters)
         IN  IF bad # 0
             THEN [ targets |-> <<>>,
                    err |-> <<"cluster is not available", targetClusters[bad]>>
                               \o GetClient(cl, targetClusters[bad]).err ]
             ELSE targetsOrNone(targetClusters)
    ELSE IF dflt.err # Nil
    THEN [ targets |-> <<>>,
           err |-> <<"no default cluster available and no clusters specified">>
                      \o dflt.err ]
    ELSE targetsOrNone(<<dflt.client[1].Config.Name>>)

\* strings.Contains on an error's message: the message holds the text.
Contains(errorMsg, text) == \E i \in DOMAIN errorMsg : errorMsg[i] = text

\* The test that makes a target's error a warning.
IsWarning(err) == Contains(err, "already exists") \/ Contains(err, "no changes")

\* Faulty variant: a failure is counted and not listed, and the command
\* returns nil whenever some target succeeded.
reportDeploymentResultsHidesFailures(res, order) ==
    LET ok       == SelectSeq(order, LAMBDA n : res[n] = Nil)
        warned   == SelectSeq(order, LAMBDA n : res[n] # Nil /\ IsWarning(res[n]))
        failed   == SelectSeq(order, LAMBDA n : res[n] # Nil /\ ~IsWarning(res[n]))
        total    == Cardinality(DOMAIN res)
    IN  [ lines        |-> [ i \in 1..Len(order) |->
                               [ name |-> order[i], err |-> res[order[i]] ] ],
          successCount |-> Len(ok),
          warnings     |-> [ i \in 1..Len(warned) |-> <<warned[i]>> \o res[warned[i]] ],
          failures     |-> <<>>,
          total        |-> total,
          errCounts    |-> <<>>,
          err          |-> IF Len(ok) > 0 \/ Len(failed) = 0 THEN Nil
                           ELSE <<"deployment failed on clusters">> ]

\* reportDeploymentResults; order is the order in which the range over the
\* map visits the clusters.  lines are the per-cluster lines it prints,
\* warnings and failures the two lists it prints after them.
reportDeploymentResults(res, order) ==
    LET ok       == SelectSeq(order, LAMBDA n : res[n] = Nil)
        warned   == SelectSeq(order, LAMBDA n : res[n] # Nil /\ IsWarning(res[n]))
        failed   == SelectSeq(order, LAMBDA n : res[n] # Nil /\ ~IsWarning(res[n]))
        total    == Cardinality(DOMAIN res)
    IN  [ lines        |-> [ i \in 1..Len(order) |->
                               [ name |-> order[i], err |-> res[order[i]] ] ],
          successCount |-> Len(ok),
          warnings     |-> [ i \in 1..Len(warned) |-> <<warned[i]>> \o res[warned[i]] ],
          failures     |-> [ i \in 1..Len(failed) |-> <<failed[i]>> \o res[failed[i]] ],
          total        |-> total,
          errCounts    |-> IF Len(failed) > 0 THEN <<Len(failed), total>> ELSE <<>>,
          err          |-> IF Len(ok) = total THEN Nil
                           ELSE IF Len(failed) > 0
                           THEN <<"deployment failed on clusters">>
                           ELSE Nil ]

\* --------------------------------------------------------------- the state

VARIABLES
    pc,                    \* where the main goroutine is
    origin,                \* how the configuration reached NewManager
    rawConfig,             \* the configuration as written
    config,                \* m.config
    loadRet,               \* what LoadConfig returned
    clients,               \* m.clients
    k,                     \* index of the range loop that starts the workers
    wpc,                   \* per worker: where the goroutine is
    wres,                  \* per worker: its local variable client
    wg,                    \* the sync.WaitGroup counter
    connectionResults,     \* the buffered channel
    closed,                \* whether the channel is closed
    cpc,                   \* where the goroutine that closes the channel is
    successfulConnections, \* local of connectToAllClusters
    connectionErrors,      \* local of connectToAllClusters
    newManagerRet,         \* what NewManager returned
    ret,                   \* what the last registry call returned
    workloadManager,       \* whether workload.NewManager has built the manager
    qpc,                   \* ListDeployments/ListPods: where the caller is
    qcall,                 \* the listing called and its arguments
    clusterNames,          \* the parameter clusterNames, once resolved
    qk,                    \* index of the range loop that starts the workers
    qwpc,                  \* per worker: where the goroutine is
    qwres,                 \* per worker: its local deployments / pods
    qwout,                 \* per worker: how its lookup and its List call ended
    qwg,                   \* the sync.WaitGroup counter
    resultChan,            \* the buffered channel
    qclosed,               \* whether resultChan is closed
    qcpc,                  \* where the goroutine that closes resultChan is
    allItems,              \* allDeployments / allPods
    queryRet,              \* what the listing returned
    dpc,                   \* DeployToMultipleClusters: where the caller is
    dcall,                 \* its arguments
    dk,                    \* index of the range loop that starts the workers
    dwpc,                  \* per worker: where the goroutine is
    dwerr,                 \* per worker: the error DeployToCluster returns
    dwrv,                  \* per worker: existing.ResourceVersion of its Get
    dwget,                 \* per worker: how its Get ended and the version it read
    dwkind,                \* per worker: the write it sent, Update or Create
    dwg,                   \* the sync.WaitGroup counter
    results,               \* the map results
    remote,                \* per cluster: the object the manifest names
    calls,                 \* per worker: DeployToCluster invocations so far
    writes,                \* per worker: Create/Update requests issued so far
    deployRet,             \* what DeployToMultipleClusters returned
    dprev,                 \* what the call before this one did, if it is repeated
    qreceived,             \* how many results the listing's range loop has received
    probeLog,              \* the clusters whose probe failed in a TestConnections call
    mutex,                 \* m.mutex: whether it is write-locked, and its read locks
    cur,                   \* connectToAllClusters: the loop variable client
    readers,               \* per calling goroutine: its call on the registry
    cmd                    \* the deploy command: its flags, targets and return

fanoutVars == << k, wpc, wres, wg, connectionResults, closed, cpc,
                 successfulConnections, connectionErrors >>

lockVars == << mutex, cur, readers >>

registryVars == << pc, origin, rawConfig, config, loadRet, clients,
                   newManagerRet, ret, probeLog, lockVars, cmd >>

queryVars == << qpc, qcall, clusterNames, qk, qwpc, qwres, qwout, qwg, resultChan,
                qclosed, qcpc, allItems, qreceived, queryRet >>

deployVars == << dpc, dcall, dk, dwpc, dwerr, dwrv, dwget, dwkind, dwg, results, remote,
                 calls, writes, deployRet, dprev >>

workloadVars == << workloadManager, queryVars, deployVars >>

vars == << registryVars, fanoutVars, workloadVars >>

NoRet == [ op |-> "none" ]

EmptyMap == [ n \in {} |-> Nil ]

NumClusters == Len(config.Clusters)

\* Faulty variant: the channel has room for one client.
ChanCapOfOne == IF Len(config.Clusters) > 0 THEN 1 ELSE 0

\* Capacity of connectionResults: make(chan *ClusterClient, len(Clusters)).
ChanCap == NumClusters

\* Largest number of goroutines that call the registry at the same time.
MaxReaders == 2

NoReader == [ pc |-> "idle", op |-> "none" ]

NoCmd == [ pc |-> "idle" ]

\* m.mutex is free, no goroutine is inside a call on the registry, and the
\* deploy command has not run.
RegistryIdle ==
    /\ probeLog = {}
    /\ mutex = [ w |-> FALSE, r |-> 0 ]
    /\ cur = Nil
    /\ readers = [ g \in 1..MaxReaders |-> NoReader ]
    /\ cmd = NoCmd

\* No listing and no deployment has been called.
WorkloadIdle ==
    /\ qpc = "idle"
    /\ qcall = [ op |-> "none" ]
    /\ clusterNames = <<>>
    /\ qk = 1
    /\ qwpc = <<>>
    /\ qwres = <<>>
    /\ qwout = <<>>
    /\ qwg = 0
    /\ resultChan = <<>>
    /\ qclosed = FALSE
    /\ qcpc = "unborn"
    /\ allItems = <<>>
    /\ qreceived = 0
    /\ queryRet = [ returned |-> FALSE ]
    /\ dpc = "idle"
    /\ dcall = [ op |-> "none" ]
    /\ dk = 1
    /\ dwpc = <<>>
    /\ dwerr = <<>>
    /\ dwrv = <<>>
    /\ dwget = <<>>
    /\ dwkind = <<>>
    /\ dwg = 0
    /\ results = EmptyMap
    /\ remote = RemoteObjects
    /\ calls = <<>>
    /\ writes = <<>>
    /\ deployRet = [ returned |-> FALSE ]
    /\ dprev = <<>>

Init ==
    /\ pc = "start"
    /\ origin = "none"
    /\ rawConfig \in RawConfigs
    /\ config = rawConfig
    /\ loadRet = [ loaded |-> FALSE, err |-> Nil ]
    /\ clients = EmptyMap
    /\ k = 1
    /\ wpc = [ i \in 1..Len(rawConfig.Clusters) |-> "unborn" ]
    /\ wres = [ i \in 1..Len(rawConfig.Clusters) |-> Nil ]
    /\ wg = 0
    /\ connectionResults = <<>>
    /\ closed = FALSE
    /\ cpc = "unborn"
    /\ successfulConnections = 0
    /\ connectionErrors = <<>>
    /\ newManagerRet = [ returned |-> FALSE, manager |-> FALSE, err |-> Nil ]
    /\ ret = NoRet
    /\ workloadManager = FALSE
    /\ RegistryIdle
    /\ WorkloadIdle

\* ---------------------------------------------------- reaching NewManager

\* LoadConfig on the file, as the root command does before NewManager: the
\* file is validated against the paths that exist, then defaults are set.
LoadConfig ==
    /\ pc = "start"
    /\ \E fs \in SUBSET AllKubeConfigPaths :
         LET err == validateConfig(rawConfig, fs) IN
         IF err # Nil
         THEN /\ loadRet' = [ loaded |-> FALSE, err |-> <<"invalid configuration">> \o err ]
              /\ pc' = "exit"
              /\ UNCHANGED << config, origin >>
         ELSE /\ loadRet' = [ loaded |-> TRUE, err |-> Nil ]
              /\ config' = setDefaults(rawConfig)
              /\ origin' = "LoadConfig"
              /\ pc' = "spawn"
    /\ UNCHANGED << workloadVars, rawConfig, probeLog, lockVars, cmd, clients, fanoutVars, newManagerRet, ret >>

\* NewManager on a configuration value built in code, as the tests do.
DirectConfig ==
    /\ pc = "start"
    /\ origin' = "direct"
    /\ pc' = "spawn"
    /\ UNCHANGED << workloadVars, rawConfig, probeLog, lockVars, cmd, config, loadRet, clients, fanoutVars,
                    newManagerRet, ret >>

\* ------------------------------------------------- connectToAllClusters

\* One iteration of the range loop: wg.Add(1); go func(cc).
SpawnWorker ==
    /\ pc = "spawn"
    /\ k <= NumClusters
    /\ wg' = wg + 1
    /\ wpc' = [ wpc EXCEPT ![k] = "running" ]
    /\ k' = k + 1
    /\ UNCHANGED << workloadVars, pc, origin, rawConfig, probeLog, lockVars, cmd, config, loadRet, clients, wres,
                    connectionResults, closed, cpc, successfulConnections,
                    connectionErrors, newManagerRet, ret >>

\* After the loop: go func() { wg.Wait(); close(connectionResults) }.
SpawnCloser ==
    /\ pc = "spawn"
    /\ k > NumClusters
    /\ cpc' = "waiting"
    /\ pc' = "collect"
    /\ UNCHANGED << workloadVars, origin, rawConfig, probeLog, lockVars, cmd, config, loadRet, clients, k, wpc, wres,
                    wg, connectionResults, closed, successfulConnections,
                    connectionErrors, newManagerRet, ret >>

\* Worker i: client := m.connectToCluster(cc).
WorkerConnect(i) ==
    /\ wpc[i] = "running"
    /\ \E client \in ClientsOf(config.Clusters[i]) :
         wres' = [ wres EXCEPT ![i] = <<client>> ]
    /\ wpc' = [ wpc EXCEPT ![i] = "send" ]
    /\ UNCHANGED << workloadVars, pc, origin, rawConfig, probeLog, lockVars, cmd, config, loadRet, clients, k, wg,
                    connectionResults, closed, cpc, successfulConnections,
                    connectionErrors, newManagerRet, ret >>

\* Worker i: connectionResults <- client (blocks while the buffer is full).
WorkerSend(i) ==
    /\ wpc[i] = "send"
    /\ Len(connectionResults) < ChanCap
    /\ ~closed
    /\ connectionResults' = Append(connectionResults, wres[i][1])
    /\ wpc' = [ wpc EXCEPT ![i] = "sent" ]
    /\ UNCHANGED << workloadVars, pc, origin, rawConfig, probeLog, lockVars, cmd, config, loadRet, clients, k, wres,
                    wg, closed, cpc, successfulConnections, connectionErrors,
                    newManagerRet, ret >>

\* Worker i: the deferred wg.Done() as the goroutine returns.
WorkerDone(i) ==
    /\ wpc[i] = "sent"
    /\ wg' = wg - 1
    /\ wpc' = [ wpc EXCEPT ![i] = "exited" ]
    /\ UNCHANGED << workloadVars, pc, origin, rawConfig, probeLog, lockVars, cmd, config, loadRet, clients, k, wres,
                    connectionResults, closed, cpc, successfulConnections,
                    connectionErrors, newManagerRet, ret >>

\* Faulty variant: the closer goes on to close without waiting for the workers.
CloserDoesNotWait ==
    /\ cpc = "waiting"
    /\ cpc' = "closing"
    /\ UNCHANGED << workloadVars, pc, origin, rawConfig, probeLog, lockVars, cmd,
                    config, loadRet, clients, k, wpc, wres, wg, connectionResults,
                    closed, successfulConnections, connectionErrors, newManagerRet, ret >>

\* The closer: wg.Wait() returns once the counter is zero.
CloserWait ==
    /\ cpc = "waiting"
    /\ wg = 0
    /\ cpc' = "closing"
    /\ UNCHANGED << workloadVars, pc, origin, rawConfig, probeLog, lockVars, cmd, config, loadRet, clients, k, wpc,
                    wres, wg, connectionResults, closed,
                    successfulConnections, connectionErrors, newManagerRet, ret >>

\* The closer: close(connectionResults).
CloserClose ==
    /\ cpc = "closing"
    /\ closed' = TRUE
    /\ cpc' = "exited"
    /\ UNCHANGED << workloadVars, pc, origin, rawConfig, probeLog, lockVars, cmd, config, loadRet, clients, k, wpc,
                    wres, wg, connectionResults, successfulConnections,
                    connectionErrors, newManagerRet, ret >>

\* Faulty variant: a client that failed to connect is counted but not stored.
CollectDropsFailed ==
    /\ pc = "collect"
    /\ Len(connectionResults) > 0
    /\ LET client == Head(connectionResults) IN
         /\ connectionResults' = Tail(connectionResults)
         /\ IF client.Connected
            THEN /\ clients' = [ n \in DOMAIN clients \cup {client.Config.Name} |->
                                  IF n = client.Config.Name THEN client ELSE clients[n] ]
                 /\ successfulConnections' = successfulConnections + 1
                 /\ UNCHANGED connectionErrors
            ELSE /\ connectionErrors' =
                        Append(connectionErrors,
                               <<"Failed to connect to", client.Config.Name>> \o client.Error)
                 /\ UNCHANGED << clients, successfulConnections >>
    /\ UNCHANGED << workloadVars, pc, origin, rawConfig, probeLog, lockVars, cmd, config, loadRet, k, wpc,
                    wres, wg, closed, cpc, newManagerRet, ret >>

\* One iteration of "for client := range connectionResults": the client is
\* stored under the write lock and counted.
Collect ==
    /\ pc = "collect"
    /\ Len(connectionResults) > 0
    /\ LET client == Head(connectionResults) IN
         /\ connectionResults' = Tail(connectionResults)
         /\ clients' = [ n \in DOMAIN clients \cup {client.Config.Name} |->
                           IF n = client.Config.Name THEN client ELSE clients[n] ]
         /\ IF client.Connected
            THEN /\ successfulConnections' = successfulConnections + 1
                 /\ UNCHANGED connectionErrors
            ELSE /\ connectionErrors' =
                        Append(connectionErrors,
                               <<"Failed to connect to", client.Config.Name>> \o client.Error)
                 /\ UNCHANGED successfulConnections
    /\ UNCHANGED << workloadVars, pc, origin, rawConfig, probeLog, lockVars, cmd, config, loadRet, k, wpc, wres, wg,
                    closed, cpc, newManagerRet, ret >>

\* Faulty variant: any failed attempt fails the whole initialization.
connectToAllClustersRetFailsOnAnyError(succ, errs) ==
    IF succ = 0 \/ Len(errs) > 0
    THEN <<"failed to connect to any clusters">> \o JoinLines(errs)
    ELSE Nil

\* Faulty variant: only the first collected failure is reported.
connectToAllClustersRetFirstErrorOnly(succ, errs) ==
    IF succ = 0
    THEN <<"failed to connect to any clusters">> \o
            (IF Len(errs) > 0 THEN Head(errs) ELSE <<>>)
    ELSE Nil

\* Faulty variant: an error is returned only when some attempt was made and
\* failed.
connectToAllClustersRetNeedsAFailure(succ, errs) ==
    IF succ = 0 /\ Len(errs) > 0
    THEN <<"failed to connect to any clusters">> \o JoinLines(errs)
    ELSE Nil

\* What connectToAllClusters returns once the range loop has ended.
connectToAllClustersRet(succ, errs) ==
    IF succ = 0
    THEN <<"failed to connect to any clusters">> \o JoinLines(errs)
    ELSE Nil

\* The range loop ends on the closed, drained channel; connectToAllClusters
\* and NewManager return.
NewManagerReturn ==
    /\ pc = "collect"
    /\ Len(connectionResults) = 0
    /\ closed
    /\ LET err == connectToAllClustersRet(successfulConnections, connectionErrors) IN
         IF err # Nil
         THEN /\ newManagerRet' = [ returned |-> TRUE, manager |-> FALSE,
                                    err |-> <<"failed to connect to clusters">> \o err ]
              /\ pc' = "exit"
         ELSE /\ newManagerRet' = [ returned |-> TRUE, manager |-> TRUE, err |-> Nil ]
              /\ pc' = "ready"
    /\ UNCHANGED << workloadVars, origin, rawConfig, probeLog, lockVars, cmd, config, loadRet, clients, fanoutVars, ret >>

\* ------------------------------------------------ calls on the registry

\* A run of the program executes one command: calls on the registry, or one
\* listing, or one deployment.
NoWorkloadCall == qpc = "idle" /\ dpc = "idle"

CallGetClient ==
    /\ pc = "ready" /\ NoWorkloadCall
    /\ \E name \in Range(NamePool) \cup {UnknownName} :
         LET r == GetClient(clients, name) IN
         ret' = [ op |-> "GetClient", arg |-> name, client |-> r.client, err |-> r.err ]
    /\ UNCHANGED << workloadVars, pc, origin, rawConfig, probeLog, lockVars, cmd, config, loadRet, clients, fanoutVars,
                    newManagerRet >>

CallGetDefaultClient ==
    /\ pc = "ready" /\ NoWorkloadCall
    /\ \E r \in GetDefaultClient(config, clients) :
         ret' = [ op |-> "GetDefaultClient", client |-> r.client, err |-> r.err ]
    /\ UNCHANGED << workloadVars, pc, origin, rawConfig, probeLog, lockVars, cmd, config, loadRet, clients, fanoutVars,
                    newManagerRet >>

CallListClusters ==
    /\ pc = "ready" /\ NoWorkloadCall
    /\ \E l \in ListClusters(clients) :
         ret' = [ op |-> "ListClusters", statuses |-> l ]
    /\ UNCHANGED << workloadVars, pc, origin, rawConfig, probeLog, lockVars, cmd, config, loadRet, clients, fanoutVars,
                    newManagerRet >>

\* Faulty variant: a probe that fails clears the client's Connected.
CallTestConnectionsClearsConnected ==
    /\ pc = "ready" /\ NoWorkloadCall
    /\ \E r \in { TestConnections(clients, order, failing) :
                     order \in Perms(DOMAIN clients),
                     failing \in SUBSET (DOMAIN clients) } :
         /\ ret' = [ op |-> "TestConnections", failing |-> r.failing,
                      probed |-> r.probed, errors |-> r.errors, err |-> r.err ]
         /\ probeLog' = probeLog \cup (Range(r.probed) \cap r.failing)
         /\ clients' = [ n \in DOMAIN clients |->
                           IF n \in Range(r.probed) \cap r.failing
                           THEN [ clients[n] EXCEPT !.Connected = FALSE,
                                                    !.Error = <<"probe failed">> ]
                           ELSE clients[n] ]
    /\ UNCHANGED << workloadVars, pc, origin, rawConfig, lockVars, cmd,
                    config, loadRet, fanoutVars, newManagerRet >>

CallTestConnections ==
    /\ pc = "ready" /\ NoWorkloadCall
    /\ \E r \in { TestConnections(clients, order, failing) :
                     order \in Perms(DOMAIN clients),
                     failing \in SUBSET (DOMAIN clients) } :
         /\ ret' = [ op |-> "TestConnections", failing |-> r.failing,
                      probed |-> r.probed, errors |-> r.errors, err |-> r.err ]
         /\ probeLog' = probeLog \cup (Range(r.probed) \cap r.failing)
    /\ UNCHANGED << workloadVars, pc, origin, rawConfig, lockVars, cmd, config, loadRet, clients, fanoutVars,
                    newManagerRet >>

Next ==
    \/ LoadConfig
    \/ DirectConfig
    \/ SpawnWorker
    \/ SpawnCloser
    \/ \E i \in DOMAIN wpc : WorkerConnect(i)
    \/ \E i \in DOMAIN wpc : WorkerSend(i)
    \/ \E i \in DOMAIN wpc : WorkerDone(i)
    \/ CloserWait
    \/ CloserClose
    \/ Collect
    \/ NewManagerReturn
    \/ CallGetClient
    \/ CallGetDefaultClient
    \/ CallListClusters
    \/ CallTestConnections

Spec == Init /\ [][Next]_vars

\* ------------------------------------------------------- m.mutex, step by step

\* The head of "for client := range connectionResults": one client is
\* received.
CollectReceive ==
    /\ pc = "collect"
    /\ Len(connectionResults) > 0
    /\ cur' = <<Head(connectionResults)>>
    /\ connectionResults' = Tail(connectionResults)
    /\ pc' = "lock"
    /\ UNCHANGED << workloadVars, origin, rawConfig, config, loadRet, clients, k, wpc,
                    wres, wg, closed, cpc, successfulConnections, connectionErrors,
                    newManagerRet, ret, probeLog, mutex, readers, cmd >>

\* m.mutex.Lock(): granted when nobody holds the mutex, for reading or for
\* writing.
CollectLock ==
    /\ pc = "lock"
    /\ ~mutex.w /\ mutex.r = 0
    /\ mutex' = [ mutex EXCEPT !.w = TRUE ]
    /\ pc' = "store"
    /\ UNCHANGED << workloadVars, origin, rawConfig, config, loadRet, clients,
                    fanoutVars, newManagerRet, ret, probeLog, cur, readers, cmd >>

\* m.clients[client.Config.Name] = client.
CollectStore ==
    /\ pc = "store"
    /\ LET client == cur[1] IN
         clients' = [ n \in DOMAIN clients \cup {client.Config.Name} |->
                        IF n = client.Config.Name THEN client ELSE clients[n] ]
    /\ pc' = "unlock"
    /\ UNCHANGED << workloadVars, origin, rawConfig, config, loadRet, fanoutVars,
                    newManagerRet, ret, probeLog, lockVars, cmd >>

\* m.mutex.Unlock(), and the rest of the loop body: the client is counted.
CollectUnlock ==
    /\ pc = "unlock"
    /\ mutex' = [ mutex EXCEPT !.w = FALSE ]
    /\ LET client == cur[1] IN
         IF client.Connected
         THEN /\ successfulConnections' = successfulConnections + 1
              /\ UNCHANGED connectionErrors
         ELSE /\ connectionErrors' =
                     Append(connectionErrors,
                            <<"Failed to connect to", client.Config.Name>> \o client.Error)
              /\ UNCHANGED successfulConnections
    /\ cur' = Nil
    /\ pc' = "collect"
    /\ UNCHANGED << workloadVars, origin, rawConfig, config, loadRet, clients, k, wpc,
                    wres, wg, connectionResults, closed, cpc, newManagerRet, ret,
                    probeLog, readers, cmd >>

\* The methods that take m.mutex.RLock().
ReaderOps == {"GetClient", "GetDefaultClient", "ListClusters", "TestConnections"}

\* Goroutine g, a fan-out worker or the command itself, calls one of the
\* methods on the manager NewManager returned.
ReaderCall(g) ==
    /\ pc = "ready"
    /\ readers[g].pc = "idle"
    /\ \E op \in ReaderOps : readers' = [ readers EXCEPT ![g] = [ pc |-> "rlock", op |-> op ] ]
    /\ UNCHANGED << workloadVars, pc, origin, rawConfig, config, loadRet, clients,
                    fanoutVars, newManagerRet, ret, probeLog, mutex, cur, cmd >>

\* Faulty variant: the method takes m.mutex.Lock() for its read.
ReaderRLockExclusive(g) ==
    /\ readers[g].pc = "rlock"
    /\ ~mutex.w /\ mutex.r = 0
    /\ mutex' = [ mutex EXCEPT !.w = TRUE ]
    /\ readers' = [ readers EXCEPT ![g].pc = "held" ]
    /\ UNCHANGED << workloadVars, pc, origin, rawConfig, config, loadRet, clients,
                    fanoutVars, newManagerRet, ret, probeLog, cur, cmd >>

\* m.mutex.RLock(): granted unless a writer holds the mutex or waits for it.
ReaderRLock(g) ==
    /\ readers[g].pc = "rlock"
    /\ ~mutex.w /\ pc # "lock"
    /\ mutex' = [ mutex EXCEPT !.r = @ + 1 ]
    /\ readers' = [ readers EXCEPT ![g].pc = "held" ]
    /\ UNCHANGED << workloadVars, pc, origin, rawConfig, config, loadRet, clients,
                    fanoutVars, newManagerRet, ret, probeLog, cur, cmd >>

\* The method reads m.clients and returns: the deferred m.mutex.RUnlock().
ReaderRUnlock(g) ==
    /\ readers[g].pc = "held"
    /\ mutex' = [ mutex EXCEPT !.r = @ - 1 ]
    /\ readers' = [ readers EXCEPT ![g] = NoReader ]
    /\ UNCHANGED << workloadVars, pc, origin, rawConfig, config, loadRet, clients,
                    fanoutVars, newManagerRet, ret, probeLog, cur, cmd >>

NextLock ==
    \/ LoadConfig
    \/ DirectConfig
    \/ SpawnWorker
    \/ SpawnCloser
    \/ \E i \in DOMAIN wpc : WorkerConnect(i)
    \/ \E i \in DOMAIN wpc : WorkerSend(i)
    \/ \E i \in DOMAIN wpc : WorkerDone(i)
    \/ CloserWait
    \/ CloserClose
    \/ CollectReceive
    \/ CollectLock
    \/ CollectStore
    \/ CollectUnlock
    \/ NewManagerReturn
    \/ \E g \in DOMAIN readers : ReaderCall(g)
    \/ \E g \in DOMAIN readers : ReaderRLock(g)
    \/ \E g \in DOMAIN readers : ReaderRUnlock(g)

\* NewManager with the steps of m.mutex apart, and then goroutines that call
\* the manager's methods at the same time.
SpecLock == Init /\ [][NextLock]_vars

\* ------------------------------------------- the workload manager's start

\* What the machines answer in the registries the workload manager is built
\* over: each attempt either succeeds or fails at its probe.
RegistryEnvs ==
    { [ home |-> TRUE, load |-> TRUE, newClient |-> TRUE, probe |-> b ] : b \in BOOLEAN }

\* The configurations LoadConfig returns for files that mark no default.
LoadedConfigs ==
    { setDefaults(c) : c \in { r \in RawConfigs :
          /\ Len(r.Clusters) > 0
          /\ r.DefaultNamespace = ""
          /\ \A i \in DOMAIN r.Clusters : ~r.Clusters[i].IsDefault } }

\* The clients maps NewManager returns a manager with: one client per
\* configured cluster, each what connectToCluster produced, one connected.
EstablishedRegistries(cfg) ==
    { [ n \in { cfg.Clusters[i].Name : i \in DOMAIN cfg.Clusters } |->
          LET i == CHOOSE j \in DOMAIN cfg.Clusters : cfg.Clusters[j].Name = n
          IN  connectToCluster(cfg.Clusters[i], e[i]) ] :
      e \in { f \in [DOMAIN cfg.Clusters -> RegistryEnvs] :
                \E i \in DOMAIN cfg.Clusters : f[i].probe } }

\* workload.NewManager(clusterManager) over a manager NewManager returned.
InitWorkload ==
    /\ pc = "ready"
    /\ origin = "LoadConfig"
    /\ config \in LoadedConfigs
    /\ rawConfig = config
    /\ loadRet = [ loaded |-> TRUE, err |-> Nil ]
    /\ clients \in EstablishedRegistries(config)
    /\ k = Len(config.Clusters) + 1
    /\ wpc = [ i \in 1..Len(config.Clusters) |-> "exited" ]
    /\ wres = [ i \in 1..Len(config.Clusters) |-> <<clients[config.Clusters[i].Name]>> ]
    /\ wg = 0
    /\ connectionResults = <<>>
    /\ closed = TRUE
    /\ cpc = "exited"
    /\ successfulConnections =
         Cardinality({ n \in DOMAIN clients : clients[n].Connected })
    /\ connectionErrors = <<>>
    /\ newManagerRet = [ returned |-> TRUE, manager |-> TRUE, err |-> Nil ]
    /\ ret = NoRet
    /\ workloadManager = TRUE
    /\ RegistryIdle
    /\ WorkloadIdle

\* --------------------------------------------- ListDeployments / ListPods

QueryOps == {"ListDeployments", "ListPods"}

\* Capacity of resultChan: make(chan ..., len(clusterNames)).
ResultChanCap == Len(clusterNames)

\* The listing is entered with its arguments, and an empty target list is
\* resolved through ListClusters.
QueryStart(op, names, namespace, statuses) ==
    /\ qcall' = [ op |-> op, clusterNames |-> names, namespace |-> namespace ]
    /\ clusterNames' = resolveTargets(names, statuses)
    /\ qwpc' = [ i \in 1..Len(clusterNames') |-> "unborn" ]
    /\ qwres' = [ i \in 1..Len(clusterNames') |-> <<>> ]
    /\ qwout' = [ i \in 1..Len(clusterNames') |-> "none" ]
    /\ qpc' = "spawn"
    /\ UNCHANGED << qk, qwg, resultChan, qclosed, qcpc, allItems, qreceived, queryRet >>

\* The call, as the one command of a run.
QueryBegin ==
    /\ pc = "ready" /\ workloadManager
    /\ NoWorkloadCall /\ ret = NoRet
    /\ \E op \in QueryOps, names \in TargetLists, namespace \in Namespaces,
          statuses \in ListClusters(clients) :
         QueryStart(op, names, namespace, statuses)
    /\ UNCHANGED << registryVars, fanoutVars, workloadManager, deployVars >>

\* One iteration of the range loop: wg.Add(1); go func(name).
QuerySpawnWorker ==
    /\ qpc = "spawn"
    /\ qk <= Len(clusterNames)
    /\ qwg' = qwg + 1
    /\ qwpc' = [ qwpc EXCEPT ![qk] = "running" ]
    /\ qk' = qk + 1
    /\ UNCHANGED << registryVars, fanoutVars, workloadManager, deployVars, qpc,
                    qcall, qreceived, clusterNames, qwres, qwout, resultChan, qclosed, qcpc,
                    allItems, queryRet >>

\* After the loop: go func() { wg.Wait(); close(resultChan) }.
QuerySpawnCloser ==
    /\ qpc = "spawn"
    /\ qk > Len(clusterNames)
    /\ qcpc' = "waiting"
    /\ qpc' = "collect"
    /\ UNCHANGED << registryVars, fanoutVars, workloadManager, deployVars, qcall, qreceived,
                    clusterNames, qk, qwpc, qwres, qwout, qwg, resultChan, qclosed,
                    allItems, queryRet >>

\* Worker i: deployments := m.getDeploymentsFromCluster(name, namespace).
QueryWorkerRun(i) ==
    /\ qwpc[i] = "running"
    /\ \E out \in { listOutcome(clients, clusterNames[i], listOK) : listOK \in BOOLEAN } :
         /\ qwres' = [ qwres EXCEPT ![i] =
                        getFromCluster(qcall.op, clients, clusterNames[i],
                                       qcall.namespace, out = "listed") ]
         /\ qwout' = [ qwout EXCEPT ![i] = out ]
    /\ qwpc' = [ qwpc EXCEPT ![i] = "send" ]
    /\ UNCHANGED << registryVars, fanoutVars, workloadManager, deployVars, qpc,
                    qcall, qreceived, clusterNames, qk, qwg, resultChan, qclosed, qcpc,
                    allItems, queryRet >>

\* Worker i: resultChan <- deployments (blocks while the buffer is full).
QueryWorkerSend(i) ==
    /\ qwpc[i] = "send"
    /\ Len(resultChan) < ResultChanCap
    /\ ~qclosed
    /\ resultChan' = Append(resultChan, qwres[i])
    /\ qwpc' = [ qwpc EXCEPT ![i] = "sent" ]
    /\ UNCHANGED << registryVars, fanoutVars, workloadManager, deployVars, qpc,
                    qcall, qreceived, clusterNames, qk, qwres, qwout, qwg, qclosed, qcpc,
                    allItems, queryRet >>

\* Worker i: the deferred wg.Done().
QueryWorkerDone(i) ==
    /\ qwpc[i] = "sent"
    /\ qwg' = qwg - 1
    /\ qwpc' = [ qwpc EXCEPT ![i] = "exited" ]
    /\ UNCHANGED << registryVars, fanoutVars, workloadManager, deployVars, qpc,
                    qcall, qreceived, clusterNames, qk, qwres, qwout, resultChan, qclosed, qcpc,
                    allItems, queryRet >>

QueryCloserWait ==
    /\ qcpc = "waiting"
    /\ qwg = 0
    /\ qcpc' = "closing"
    /\ UNCHANGED << registryVars, fanoutVars, workloadManager, deployVars, qpc,
                    qcall, qreceived, clusterNames, qk, qwpc, qwres, qwout, qwg, resultChan,
                    qclosed, allItems, queryRet >>

\* Faulty variant: the closing goroutine ends without close(resultChan).
QueryCloserExitsWithoutClose ==
    /\ qcpc = "closing"
    /\ qcpc' = "exited"
    /\ UNCHANGED << registryVars, fanoutVars, workloadManager, deployVars, qpc,
                    qcall, qreceived, clusterNames, qk, qwpc, qwres, qwout, qwg,
                    resultChan, qclosed, allItems, queryRet >>

QueryCloserClose ==
    /\ qcpc = "closing"
    /\ qclosed' = TRUE
    /\ qcpc' = "exited"
    /\ UNCHANGED << registryVars, fanoutVars, workloadManager, deployVars, qpc,
                    qcall, qreceived, clusterNames, qk, qwpc, qwres, qwout, qwg, resultChan,
                    allItems, queryRet >>

\* One iteration of "for deployments := range resultChan".
QueryCollect ==
    /\ qpc = "collect"
    /\ Len(resultChan) > 0
    /\ allItems' = allItems \o Head(resultChan)
    /\ resultChan' = Tail(resultChan)
    /\ qreceived' = qreceived + 1
    /\ UNCHANGED << registryVars, fanoutVars, workloadManager, deployVars, qpc,
                    qcall, clusterNames, qk, qwpc, qwres, qwout, qwg, qclosed, qcpc,
                    queryRet >>

\* Faulty variant: a per-cluster failure becomes the call's error.
QueryReturnFailsOnClusterError ==
    /\ qpc = "collect"
    /\ Len(resultChan) = 0
    /\ qclosed
    /\ queryRet' = [ returned |-> TRUE, items |-> allItems,
                     err |-> IF \E i \in DOMAIN qwout : qwout[i] # "listed"
                             THEN <<"failed to list">> ELSE Nil ]
    /\ qpc' = "returned"
    /\ UNCHANGED << registryVars, fanoutVars, workloadManager, deployVars, qcall, qreceived,
                    clusterNames, qk, qwpc, qwres, qwout, qwg, resultChan, qclosed,
                    qcpc, allItems >>

\* The range loop ends on the closed, drained channel: return all, nil.
QueryReturn ==
    /\ qpc = "collect"
    /\ Len(resultChan) = 0
    /\ qclosed
    /\ queryRet' = [ returned |-> TRUE, items |-> allItems, err |-> Nil ]
    /\ qpc' = "returned"
    /\ UNCHANGED << registryVars, fanoutVars, workloadManager, deployVars, qcall, qreceived,
                    clusterNames, qk, qwpc, qwres, qwout, qwg, resultChan, qclosed,
                    qcpc, allItems >>

NextQuery ==
    \/ QueryBegin
    \/ QuerySpawnWorker
    \/ QuerySpawnCloser
    \/ \E i \in DOMAIN qwpc : QueryWorkerRun(i)
    \/ \E i \in DOMAIN qwpc : QueryWorkerSend(i)
    \/ \E i \in DOMAIN qwpc : QueryWorkerDone(i)
    \/ QueryCloserWait
    \/ QueryCloserClose
    \/ QueryCollect
    \/ QueryReturn

SpecQuery == InitWorkload /\ [][NextQuery]_vars

\* ---------------------------------------------- DeployToMultipleClusters

\* DeployToMultipleClusters is entered with its arguments:
\* results := make(map[string]error).
DeployStart(names, namespace, yaml) ==
    /\ dcall' = [ op |-> "DeployToMultipleClusters", clusterNames |-> names,
                  namespace |-> namespace, yamlContent |-> yaml ]
    /\ dwpc' = [ i \in 1..Len(names) |-> "unborn" ]
    /\ dwerr' = [ i \in 1..Len(names) |-> Nil ]
    /\ dwrv' = [ i \in 1..Len(names) |-> 0 ]
    /\ dwget' = [ i \in 1..Len(names) |-> NoGet ]
    /\ dwkind' = [ i \in 1..Len(names) |-> "none" ]
    /\ calls' = [ i \in 1..Len(names) |-> 0 ]
    /\ writes' = [ i \in 1..Len(names) |-> 0 ]
    /\ dpc' = "spawn"
    /\ UNCHANGED << dk, dwg, results, remote, deployRet, dprev >>

\* The call, made on the workload manager directly.
DeployBegin ==
    /\ pc = "ready" /\ workloadManager
    /\ NoWorkloadCall /\ ret = NoRet
    /\ \E names \in TargetLists, yaml \in Manifests :
         DeployStart(names, "prod", yaml)
    /\ UNCHANGED << registryVars, fanoutVars, workloadManager, queryVars >>

\* One iteration of the range loop: wg.Add(1); go func(name).
DeploySpawnWorker ==
    /\ dpc = "spawn"
    /\ dk <= Len(dcall.clusterNames)
    /\ dwg' = dwg + 1
    /\ dwpc' = [ dwpc EXCEPT ![dk] = "running" ]
    /\ dk' = dk + 1
    /\ UNCHANGED << registryVars, fanoutVars, workloadManager, queryVars, dpc,
                    dcall, dwerr, dwrv, dwget, dwkind, results, remote, calls, writes,
                    deployRet, dprev >>

\* After the loop the caller itself blocks in wg.Wait().
DeployLoopEnd ==
    /\ dpc = "spawn"
    /\ dk > Len(dcall.clusterNames)
    /\ dpc' = "wait"
    /\ UNCHANGED << registryVars, fanoutVars, workloadManager, queryVars, dcall,
                    dk, dwpc, dwerr, dwrv, dwget, dwkind, dwg, results, remote, calls, writes,
                    deployRet, dprev >>

\* Faulty variant: a worker that sees a failure already recorded gives up without
\* calling DeployToCluster.
DeployWorkerLookupCancelsAfterFailure(i) ==
    /\ dwpc[i] = "running"
    /\ IF \E n \in DOMAIN results : results[n] # Nil
       THEN /\ dwerr' = [ dwerr EXCEPT ![i] = <<"cancelled">> ]
            /\ dwpc' = [ dwpc EXCEPT ![i] = "record" ]
            /\ UNCHANGED calls
       ELSE /\ calls' = [ calls EXCEPT ![i] = @ + 1 ]
            /\ LET err == deployPrecheck(clients, dcall.clusterNames[i], dcall.yamlContent) IN
                 /\ dwerr' = [ dwerr EXCEPT ![i] = err ]
                 /\ dwpc' = [ dwpc EXCEPT ![i] = IF err # Nil THEN "record" ELSE "reading" ]
    /\ UNCHANGED << registryVars, fanoutVars, workloadManager, queryVars, dpc,
                    dcall, dk, dwrv, dwget, dwkind, dwg, results, remote, writes, deployRet, dprev >>

\* Worker i enters DeployToCluster: the handle lookup, the YAML and its kind.
DeployWorkerLookup(i) ==
    /\ dwpc[i] = "running"
    /\ calls' = [ calls EXCEPT ![i] = @ + 1 ]
    /\ LET err == deployPrecheck(clients, dcall.clusterNames[i], dcall.yamlContent) IN
         /\ dwerr' = [ dwerr EXCEPT ![i] = err ]
         /\ dwpc' = [ dwpc EXCEPT ![i] = IF err # Nil THEN "record" ELSE "reading" ]
    /\ UNCHANGED << registryVars, fanoutVars, workloadManager, queryVars, dpc,
                    dcall, dk, dwrv, dwget, dwkind, dwg, results, remote, writes, deployRet, dprev >>

\* Worker i: the Get of the existing object, within the 60 s timeout.
DeployWorkerGet(i) ==
    /\ dwpc[i] = "reading"
    /\ \E getOK \in BOOLEAN :
         LET obj == remote[dcall.clusterNames[i]]
             to  == branchAfterGet(getOK, obj)
         IN  /\ dwpc' = [ dwpc EXCEPT ![i] = to ]
             /\ dwrv' = [ dwrv EXCEPT ![i] =
                            IF to = "updating" THEN obj.resourceVersion ELSE @ ]
             /\ dwget' = [ dwget EXCEPT ![i] = remoteGet(getOK, obj) ]
    /\ UNCHANGED dwkind
    /\ UNCHANGED << registryVars, fanoutVars, workloadManager, queryVars, dpc,
                    dcall, dk, dwerr, dwg, results, remote, calls, writes,
                    deployRet, dprev >>

\* Faulty variant: a rejected write sends the worker back to its Get.
DeployWorkerWriteRetries(i) ==
    /\ dwpc[i] \in {"updating", "creating"}
    /\ \E callOK \in BOOLEAN :
         LET c == dcall.clusterNames[i]
             r == IF dwpc[i] = "updating"
                  THEN remoteUpdate(remote[c], dwrv[i], dcall.yamlContent.image, callOK)
                  ELSE remoteCreate(remote[c], dcall.yamlContent.image, callOK)
         IN  /\ remote' = [ remote EXCEPT ![c] = r.obj ]
             /\ dwerr' = [ dwerr EXCEPT ![i] = r.err ]
             /\ dwpc' = [ dwpc EXCEPT ![i] =
                            IF r.err # Nil /\ writes[i] = 0 THEN "reading" ELSE "record" ]
    /\ writes' = [ writes EXCEPT ![i] = @ + 1 ]
    /\ dwkind' = [ dwkind EXCEPT ![i] = IF dwpc[i] = "updating" THEN "update" ELSE "create" ]
    /\ UNCHANGED << registryVars, fanoutVars, workloadManager, queryVars, dpc,
                    dcall, dk, dwrv, dwget, dwg, results, calls, deployRet, dprev >>

\* Worker i: the Update or the Create, and DeployToCluster's return.
DeployWorkerWrite(i) ==
    /\ dwpc[i] \in {"updating", "creating"}
    /\ \E callOK \in BOOLEAN :
         LET c == dcall.clusterNames[i]
             r == IF dwpc[i] = "updating"
                  THEN remoteUpdate(remote[c], dwrv[i], dcall.yamlContent.image, callOK)
                  ELSE remoteCreate(remote[c], dcall.yamlContent.image, callOK)
         IN  /\ remote' = [ remote EXCEPT ![c] = r.obj ]
             /\ dwerr' = [ dwerr EXCEPT ![i] = r.err ]
    /\ writes' = [ writes EXCEPT ![i] = @ + 1 ]
    /\ dwkind' = [ dwkind EXCEPT ![i] = IF dwpc[i] = "updating" THEN "update" ELSE "create" ]
    /\ dwpc' = [ dwpc EXCEPT ![i] = "record" ]
    /\ UNCHANGED << registryVars, fanoutVars, workloadManager, queryVars, dpc,
                    dcall, dk, dwrv, dwget, dwg, results, calls, deployRet, dprev >>

\* Faulty variant: the closure stores under the loop variable clusterName, not
\* under its own parameter name.
DeployWorkerRecordUnderLoopVariable(i) ==
    /\ dwpc[i] = "record"
    /\ LET name == dcall.clusterNames[dk - 1] IN
         results' = [ n \in DOMAIN results \cup {name} |->
                        IF n = name THEN dwerr[i] ELSE results[n] ]
    /\ dwpc' = [ dwpc EXCEPT ![i] = "recorded" ]
    /\ UNCHANGED << registryVars, fanoutVars, workloadManager, queryVars, dpc,
                    dcall, dk, dwerr, dwrv, dwget, dwkind, dwg, remote, calls, writes,
                    deployRet, dprev >>

\* Worker i: mutex.Lock(); results[name] = err; mutex.Unlock().
DeployWorkerRecord(i) ==
    /\ dwpc[i] = "record"
    /\ LET name == dcall.clusterNames[i] IN
         results' = [ n \in DOMAIN results \cup {name} |->
                        IF n = name THEN dwerr[i] ELSE results[n] ]
    /\ dwpc' = [ dwpc EXCEPT ![i] = "recorded" ]
    /\ UNCHANGED << registryVars, fanoutVars, workloadManager, queryVars, dpc,
                    dcall, dk, dwerr, dwrv, dwget, dwkind, dwg, remote, calls, writes,
                    deployRet, dprev >>

\* Worker i: the deferred wg.Done().
DeployWorkerDone(i) ==
    /\ dwpc[i] = "recorded"
    /\ dwg' = dwg - 1
    /\ dwpc' = [ dwpc EXCEPT ![i] = "exited" ]
    /\ UNCHANGED << registryVars, fanoutVars, workloadManager, queryVars, dpc,
                    dcall, dk, dwerr, dwrv, dwget, dwkind, results, remote, calls, writes,
                    deployRet, dprev >>

\* Faulty variant: the caller returns without wg.Wait().
DeployReturnWithoutWait ==
    /\ dpc = "wait"
    /\ deployRet' = [ returned |-> TRUE, results |-> results ]
    /\ dpc' = "returned"
    /\ UNCHANGED << registryVars, fanoutVars, workloadManager, queryVars, dcall,
                    dk, dwpc, dwerr, dwrv, dwget, dwkind, dwg, results, remote, calls, writes, dprev >>

\* wg.Wait() returns once the counter is zero: return results.
DeployReturn ==
    /\ dpc = "wait"
    /\ dwg = 0
    /\ deployRet' = [ returned |-> TRUE, results |-> results ]
    /\ dpc' = "returned"
    /\ UNCHANGED << registryVars, fanoutVars, workloadManager, queryVars, dcall,
                    dk, dwpc, dwerr, dwrv, dwget, dwkind, dwg, results, remote, calls, writes, dprev >>

NextDeploy ==
    \/ DeployBegin
    \/ DeploySpawnWorker
    \/ DeployLoopEnd
    \/ \E i \in DOMAIN dwpc : DeployWorkerLookup(i)
    \/ \E i \in DOMAIN dwpc : DeployWorkerGet(i)
    \/ \E i \in DOMAIN dwpc : DeployWorkerWrite(i)
    \/ \E i \in DOMAIN dwpc : DeployWorkerRecord(i)
    \/ \E i \in DOMAIN dwpc : DeployWorkerDone(i)
    \/ DeployReturn

SpecDeploy == InitWorkload /\ [][NextDeploy]_vars

\* The Go scheduler runs every runnable goroutine, and each remote call
\* returns, with its answer or at the 60 s deadline of its context.
SpecDeployFair == InitWorkload /\ [][NextDeploy]_vars /\ WF_vars(NextDeploy)

\* ------------------------------------------------------ the deploy command

\* What the --clusters flag can hold: names, an unknown name and blank
\* pieces.
ClustersFlags == UNION { [1..n -> TargetNames \cup {""}] : n \in 0..MaxTargets }

\* The flags of one "mcm deploy" invocation.
DeployFlagSets ==
    [ clusters    : ClustersFlags,
      allClusters : BOOLEAN,
      exclude     : { <<>>, <<NamePool[1]>> },
      namespace   : { "", "prod" } ]

\* The RunE of the deploy command: the file is checked and read, the targets
\* are parsed from the flags, and DeployToMultipleClusters is called on them;
\* an error on the way returns before that call.
DeployCmdRun ==
    /\ pc = "ready" /\ workloadManager
    /\ NoWorkloadCall /\ ret = NoRet
    /\ cmd = NoCmd
    /\ \E flags \in DeployFlagSets, file \in {"read", "missing", "unreadable"},
          yaml \in Manifests, statuses \in ListClusters(clients),
          dflt \in GetDefaultClient(config, clients) :
         LET t == parseDeploymentTargets(flags, clients, statuses, dflt)
             namespace == IF flags.namespace = "" THEN config.DefaultNamespace
                          ELSE flags.namespace
             early == IF file = "missing" THEN <<"YAML file not found">>
                      ELSE IF file = "unreadable" THEN <<"failed to read YAML file">>
                      ELSE t.err
         IN  IF early # Nil
             THEN /\ cmd' = [ pc |-> "returned", flags |-> flags, targets |-> <<>>,
                              report |-> <<>>, err |-> early ]
                  /\ UNCHANGED deployVars
             ELSE /\ cmd' = [ pc |-> "deploying", flags |-> flags,
                              targets |-> t.targets, report |-> <<>>, err |-> Nil ]
                  /\ DeployStart(t.targets, namespace, yaml)
    /\ UNCHANGED << pc, origin, rawConfig, config, loadRet, clients, newManagerRet,
                    ret, probeLog, lockVars, fanoutVars, workloadManager, queryVars >>

\* DeployToMultipleClusters has returned: return reportDeploymentResults(...).
DeployCmdReport ==
    /\ cmd.pc = "deploying"
    /\ dpc = "returned"
    /\ \E order \in Perms(DOMAIN deployRet.results) :
         LET r == reportDeploymentResults(deployRet.results, order) IN
         cmd' = [ cmd EXCEPT !.pc = "returned", !.report = <<r>>, !.err = r.err ]
    /\ UNCHANGED << pc, origin, rawConfig, config, loadRet, clients, newManagerRet,
                    ret, probeLog, lockVars, fanoutVars, workloadVars >>

NextDeployCmd ==
    \/ DeployCmdRun
    \/ DeploySpawnWorker
    \/ DeployLoopEnd
    \/ \E i \in DOMAIN dwpc : DeployWorkerLookup(i)
    \/ \E i \in DOMAIN dwpc : DeployWorkerGet(i)
    \/ \E i \in DOMAIN dwpc : DeployWorkerWrite(i)
    \/ \E i \in DOMAIN dwpc : DeployWorkerRecord(i)
    \/ \E i \in DOMAIN dwpc : DeployWorkerDone(i)
    \/ DeployReturn
    \/ DeployCmdReport

SpecDeployCmd == InitWorkload /\ [][NextDeployCmd]_vars

\* ------------------------------------------ the report on any outcome map

\* The errors a target's entry of the map can hold; nil is success.
OutcomeErrors ==
    { Nil,
      <<"failed to create deployment", "already exists">>,
      <<"failed to update deployment", "no changes">>,
      <<"failed to update deployment", "conflict">>,
      <<"failed to get cluster client for", UnknownName,
        "cluster not found in configuration", UnknownName>> }

\* The maps DeployToMultipleClusters can hand to the report.
OutcomeMaps == UNION { [S -> OutcomeErrors] : S \in SUBSET TargetNames }

\* reportDeploymentResults(results, yamlFile) on a map, visited in an order
\* the runtime chooses.
ReportAnyResults ==
    /\ pc = "ready" /\ workloadManager
    /\ NoWorkloadCall /\ ret = NoRet
    /\ cmd = NoCmd
    /\ \E m \in OutcomeMaps :
         \E order \in Perms(DOMAIN m) :
            LET r == reportDeploymentResults(m, order) IN
            cmd' = [ pc |-> "reported", results |-> m, report |-> <<r>>, err |-> r.err ]
    /\ UNCHANGED << pc, origin, rawConfig, config, loadRet, clients, newManagerRet,
                    ret, probeLog, lockVars, fanoutVars, workloadVars >>

NextReport == ReportAnyResults

SpecReport == InitWorkload /\ [][NextReport]_vars

\* --------------------------------------------- the same deployment again

\* The caller repeats a deployment to one cluster with the same manifest,
\* once the first call has returned; the remote object is as that call left
\* it.
DeployAgain ==
    /\ dpc = "returned"
    /\ dprev = <<>>
    /\ Len(dcall.clusterNames) = 1
    /\ dprev' = << [ kinds |-> dwkind, errs |-> dwerr, gets |-> dwget ] >>
    /\ dpc' = "spawn"
    /\ dk' = 1
    /\ dwpc' = [ i \in DOMAIN dwpc |-> "unborn" ]
    /\ dwerr' = [ i \in DOMAIN dwpc |-> Nil ]
    /\ dwrv' = [ i \in DOMAIN dwpc |-> 0 ]
    /\ dwget' = [ i \in DOMAIN dwpc |-> NoGet ]
    /\ dwkind' = [ i \in DOMAIN dwpc |-> "none" ]
    /\ calls' = [ i \in DOMAIN dwpc |-> 0 ]
    /\ writes' = [ i \in DOMAIN dwpc |-> 0 ]
    /\ results' = EmptyMap
    /\ deployRet' = [ returned |-> FALSE ]
    /\ UNCHANGED << registryVars, fanoutVars, workloadManager, queryVars, dcall,
                    dwg, remote >>

NextDeployTwice == NextDeploy \/ DeployAgain

SpecDeployTwice == InitWorkload /\ [][NextDeployTwice]_vars

\* ------------------------------------------ a writer outside the program

\* The image another client of the cluster writes.
ExternalImage == "ext:1"

\* While a deployment call is under way, another client of cluster c updates
\* the object: the server stores its image under the next resource version.
ExternalWrite(c) ==
    /\ dpc \in {"spawn", "wait"}
    /\ c \in Range(dcall.clusterNames) \cap Range(NamePool)
    /\ remote[c].exists
    /\ remote[c].image # ExternalImage
    /\ remote' = [ remote EXCEPT ![c] =
                     [ exists |-> TRUE, resourceVersion |-> @.resourceVersion + 1,
                       image |-> ExternalImage ] ]
    /\ UNCHANGED << registryVars, fanoutVars, workloadManager, queryVars, dpc,
                    dcall, dk, dwpc, dwerr, dwrv, dwget, dwkind, dwg, results,
                    calls, writes, deployRet, dprev >>

NextDeployExt ==
    \/ NextDeploy
    \/ \E c \in Range(NamePool) : ExternalWrite(c)

SpecDeployExt == InitWorkload /\ [][NextDeployExt]_vars

\* ------------------------------------------- the status of one deployment

\* Largest replica count, desired or ready, of a listed deployment; the
\* counts range from -MaxReplicas to MaxReplicas.
MaxReplicas == 4

ReplicaCounts == (0 - MaxReplicas)..MaxReplicas

\* The listing path is about to classify one deployment of the API server's
\* answer, with *deployment.Spec.Replicas and Status.ReadyReplicas drawn
\* from the range.
InitStatus ==
    /\ pc = "ready"
    /\ origin = "LoadConfig"
    /\ config = setDefaults([ Clusters |-> <<ClusterConfigAt(1, FALSE)>>,
                              DefaultNamespace |-> "", Timeout |-> 0 ])
    /\ rawConfig = config
    /\ loadRet = [ loaded |-> TRUE, err |-> Nil ]
    /\ clients = [ n \in {NamePool[1]} |->
                     connectToCluster(config.Clusters[1],
                        [ home |-> TRUE, load |-> TRUE, newClient |-> TRUE, probe |-> TRUE ]) ]
    /\ k = 2
    /\ wpc = <<"exited">>
    /\ wres = << <<clients[NamePool[1]]>> >>
    /\ wg = 0
    /\ connectionResults = <<>>
    /\ closed = TRUE
    /\ cpc = "exited"
    /\ successfulConnections = 1
    /\ connectionErrors = <<>>
    /\ newManagerRet = [ returned |-> TRUE, manager |-> TRUE, err |-> Nil ]
    /\ ret = NoRet
    /\ workloadManager = TRUE
    /\ RegistryIdle
    /\ qpc = "classify"
    /\ \E d, r \in ReplicaCounts :
         qcall = [ op |-> "deploymentStatus", Replicas |-> d, ReadyReplicas |-> r ]
    /\ clusterNames = <<NamePool[1]>>
    /\ qk = 2
    /\ qwpc = <<"running">>
    /\ qwres = << <<>> >>
    /\ qwout = <<"none">>
    /\ qwg = 1
    /\ resultChan = <<>>
    /\ qclosed = FALSE
    /\ qcpc = "waiting"
    /\ allItems = <<>>
    /\ qreceived = 0
    /\ queryRet = [ returned |-> FALSE ]
    /\ dpc = "idle"
    /\ dcall = [ op |-> "none" ]
    /\ dk = 1
    /\ dwpc = <<>>
    /\ dwerr = <<>>
    /\ dwrv = <<>>
    /\ dwget = <<>>
    /\ dwkind = <<>>
    /\ dwg = 0
    /\ results = EmptyMap
    /\ remote = RemoteObjects
    /\ calls = <<>>
    /\ writes = <<>>
    /\ deployRet = [ returned |-> FALSE ]
    /\ dprev = <<>>

\* The status branch of getDeploymentsFromCluster on that deployment.
ClassifyStatus ==
    /\ qpc = "classify"
    /\ queryRet' = [ returned |-> FALSE,
                     status |-> deploymentStatus(qcall.ReadyReplicas, qcall.Replicas) ]
    /\ qpc' = "classified"
    /\ UNCHANGED << registryVars, fanoutVars, workloadManager, deployVars, qcall, qreceived,
                    clusterNames, qk, qwpc, qwres, qwout, qwg, resultChan, qclosed,
                    qcpc, allItems >>

NextStatus == ClassifyStatus

SpecStatus == InitStatus /\ [][NextStatus]_vars

\* -------------------------------------------- validateConfig on any file

\* The cluster entries a file can hold: a name or none, a context or none,
\* a kubeconfig path or none, marked default or not.
FileClusters ==
    [ Name       : {"", NamePool[1], NamePool[2]},
      Context    : {"", NamePool[1]},
      KubeConfig : {<<>>, KubeConfigPool[2]},
      IsDefault  : BOOLEAN ]

\* The configurations yaml.Unmarshal can produce from a file, valid or not.
FileConfigs ==
    { [ Clusters |-> cs, DefaultNamespace |-> "", Timeout |-> 0 ] :
      cs \in UNION { [1..n -> FileClusters] : n \in 0..MaxClusters } }

\* The program has read a configuration file and has not validated it yet.
InitValidate ==
    /\ pc = "start"
    /\ origin = "none"
    /\ rawConfig \in FileConfigs
    /\ config = rawConfig
    /\ loadRet = [ loaded |-> FALSE, err |-> Nil ]
    /\ clients = EmptyMap
    /\ k = 1
    /\ wpc = [ i \in 1..Len(rawConfig.Clusters) |-> "unborn" ]
    /\ wres = [ i \in 1..Len(rawConfig.Clusters) |-> Nil ]
    /\ wg = 0
    /\ connectionResults = <<>>
    /\ closed = FALSE
    /\ cpc = "unborn"
    /\ successfulConnections = 0
    /\ connectionErrors = <<>>
    /\ newManagerRet = [ returned |-> FALSE, manager |-> FALSE, err |-> Nil ]
    /\ ret = NoRet
    /\ workloadManager = FALSE
    /\ RegistryIdle
    /\ WorkloadIdle

\* validateConfig(&config), as TestValidateConfig calls it; fs is the set of
\* paths that exist.
CallValidateConfig ==
    /\ pc = "start"
    /\ ret = NoRet
    /\ \E fs \in SUBSET AllKubeConfigPaths :
         ret' = [ op |-> "validateConfig", fs |-> fs,
                  err |-> validateConfig(rawConfig, fs) ]
    /\ UNCHANGED << workloadVars, pc, origin, rawConfig, probeLog, lockVars, cmd, config, loadRet, clients,
                    fanoutVars, newManagerRet >>

NextValidate == CallValidateConfig \/ LoadConfig

SpecValidate == InitValidate /\ [][NextValidate]_vars

\* ------------------------------------- calls one after another on one manager

\* A listing called on a manager that has already served other calls.
QueryBeginAnytime ==
    /\ pc = "ready" /\ workloadManager
    /\ NoWorkloadCall
    /\ \E op \in QueryOps, names \in TargetLists, namespace \in Namespaces,
          statuses \in ListClusters(clients) :
         QueryStart(op, names, namespace, statuses)
    /\ UNCHANGED << registryVars, fanoutVars, workloadManager, deployVars >>

\* The caller is done with what the listing returned; the call's locals are
\* gone.
QueryEnd ==
    /\ qpc = "returned"
    /\ qpc' = "idle"
    /\ qcall' = [ op |-> "none" ]
    /\ clusterNames' = <<>>
    /\ qk' = 1
    /\ qwpc' = <<>>
    /\ qwres' = <<>>
    /\ qwout' = <<>>
    /\ qcpc' = "unborn"
    /\ qclosed' = FALSE
    /\ allItems' = <<>>
    /\ qreceived' = 0
    /\ queryRet' = [ returned |-> FALSE ]
    /\ UNCHANGED << registryVars, fanoutVars, workloadManager, deployVars, qwg,
                    resultChan >>

\* A deployment called on a manager that has already served other calls.
DeployBeginAnytime ==
    /\ pc = "ready" /\ workloadManager
    /\ NoWorkloadCall
    /\ \E names \in TargetLists, yaml \in Manifests :
         DeployStart(names, "prod", yaml)
    /\ UNCHANGED << registryVars, fanoutVars, workloadManager, queryVars >>

NextSteady ==
    \/ CallGetClient
    \/ CallGetDefaultClient
    \/ CallListClusters
    \/ CallTestConnections
    \/ QueryBeginAnytime
    \/ QuerySpawnWorker
    \/ QuerySpawnCloser
    \/ \E i \in DOMAIN qwpc : QueryWorkerRun(i)
    \/ \E i \in DOMAIN qwpc : QueryWorkerSend(i)
    \/ \E i \in DOMAIN qwpc : QueryWorkerDone(i)
    \/ QueryCloserWait
    \/ QueryCloserClose
    \/ QueryCollect
    \/ QueryReturn
    \/ QueryEnd
    \/ DeployBeginAnytime
    \/ DeploySpawnWorker
    \/ DeployLoopEnd
    \/ \E i \in DOMAIN dwpc : DeployWorkerLookup(i)
    \/ \E i \in DOMAIN dwpc : DeployWorkerGet(i)
    \/ \E i \in DOMAIN dwpc : DeployWorkerWrite(i)
    \/ \E i \in DOMAIN dwpc : DeployWorkerRecord(i)
    \/ \E i \in DOMAIN dwpc : DeployWorkerDone(i)
    \/ DeployReturn

\* A manager NewManager has returned serves registry calls and listings in
\* any order and number, and a deployment.
SpecSteady == InitWorkload /\ [][NextSteady]_vars

\* The commands together: the registry's start and its calls, and, over an
\* established registry, one listing or one deployment.
InitAll == Init \/ InitWorkload

NextAll == Next \/ NextQuery \/ NextDeploy

SpecAll == InitAll /\ [][NextAll]_vars

\* The Go scheduler runs a goroutine that can take a step, and every remote
\* call returns, with its answer, its error or at its timeout.  One call is
\* under way at a time, so its steps are the only ones that can be taken.
SpecAllFair == InitAll /\ [][NextAll]_vars /\ WF_vars(NextAll)

\* ================================================================ properties

\* ------------------------------------------------- properties of the registry

\* Whether the connection attempt on configured cluster i succeeded.
AttemptSucceeded(i) == wres[i] # Nil /\ wres[i][1].Connected

ConfiguredNames == { config.Clusters[i].Name : i \in DOMAIN config.Clusters }

ConnectedNames == { n \in DOMAIN clients : clients[n].Connected }

\* C1: for a non-empty configuration, NewManager returns a manager and a nil
\* error if and only if at least one cluster's connection attempt succeeded;
\* it returns an error and no manager when every attempt failed.
C1_NewManagerSucceedsIffSomeAttemptSucceeded ==
    (newManagerRet.returned /\ NumClusters > 0) =>
        /\ (newManagerRet.err = Nil) <=> (\E i \in DOMAIN wres : AttemptSucceeded(i))
        /\ newManagerRet.manager <=> (newManagerRet.err = Nil)

\* NewManager has returned a manager although one attempt failed next to one
\* that succeeded.
C1_WitnessPartialFailure ==
    /\ newManagerRet.returned
    /\ newManagerRet.manager
    /\ newManagerRet.err = Nil
    /\ \E i \in DOMAIN wres : AttemptSucceeded(i)
    /\ \E i \in DOMAIN wres : wres[i] # Nil /\ ~wres[i][1].Connected

\* C2: what ListClusters returns after NewManager succeeded has exactly one
\* status per configured cluster, and that status is the one of the cluster's
\* own attempt: Connected iff the attempt succeeded, Error non-empty iff it
\* failed.
C2_ListClustersReportsEachAttempt ==
    ret.op = "ListClusters" =>
        /\ Len(ret.statuses) = NumClusters
        /\ \A i \in DOMAIN config.Clusters :
             LET js == { j \in DOMAIN ret.statuses :
                           ret.statuses[j].Name = config.Clusters[i].Name }
             IN  /\ Cardinality(js) = 1
                 /\ \A j \in js :
                      /\ ret.statuses[j].Connected <=> AttemptSucceeded(i)
                      /\ (ret.statuses[j].Error # <<>>) <=> ~AttemptSucceeded(i)
                      /\ ret.statuses[j].Error = wres[i][1].Error

\* ListClusters has answered for two clusters, one connected and one not.
C2_WitnessOneConnectedOneFailed ==
    /\ ret.op = "ListClusters"
    /\ NumClusters = 2
    /\ \E i, j \in DOMAIN ret.statuses :
         /\ ret.statuses[i].Connected
         /\ ~ret.statuses[j].Connected
         /\ ret.statuses[j].Error # <<>>

\* C9 as stated: GetDefaultClient returns the client of the cluster marked
\* default if it is connected, falls back to a connected cluster when the
\* default is not connected, and fails only when no cluster is connected.
C9_Original_FallbackWhenDefaultUnconnected ==
    ret.op = "GetDefaultClient" =>
        LET d == FirstDefault(config.Clusters) IN
        /\ (d # 0 /\ clients[config.Clusters[d].Name].Connected) =>
              /\ ret.err = Nil
              /\ ret.client = <<clients[config.Clusters[d].Name]>>
        /\ ConnectedNames # {} =>
              /\ ret.err = Nil
              /\ Len(ret.client) = 1
              /\ ret.client[1].Connected
        /\ ret.err # Nil => ConnectedNames = {}

\* C9 amended: when a cluster is marked default, GetDefaultClient answers for
\* the first such cluster alone: its client if it is connected, otherwise the
\* not-connected error and no client, whatever other clusters are connected.
\* Only when no cluster is marked default does it return the client of some
\* connected cluster, failing if there is none.
C9_DefaultWithoutFallback ==
    ret.op = "GetDefaultClient" =>
        LET d == FirstDefault(config.Clusters) IN
        IF d # 0
        THEN LET name == config.Clusters[d].Name IN
             IF clients[name].Connected
             THEN ret.err = Nil /\ ret.client = <<clients[name]>>
             ELSE /\ ret.client = Nil
                  /\ Len(ret.err) >= 2
                  /\ ret.err[1] = "cluster is not connected"
                  /\ ret.err[2] = name
        ELSE IF ConnectedNames # {}
        THEN /\ ret.err = Nil
             /\ \E n \in ConnectedNames : ret.client = <<clients[n]>>
        ELSE ret.err # Nil /\ ret.client = Nil

\* GetDefaultClient has failed for an unconnected default while another
\* cluster is connected.
C9_WitnessUnconnectedDefaultFails ==
    /\ ret.op = "GetDefaultClient"
    /\ FirstDefault(config.Clusters) # 0
    /\ ~clients[config.Clusters[FirstDefault(config.Clusters)].Name].Connected
    /\ ConnectedNames # {}
    /\ ret.err # Nil

NoneMarkedDefault(cfg) == \A i \in DOMAIN cfg.Clusters : ~cfg.Clusters[i].IsDefault

\* C10 as stated: when the configuration handed over marks no cluster
\* default, GetDefaultClient returns the first configured cluster's client and
\* ListClusters reports IsDefault on that cluster only.
C10_Original_FirstEntryIsDefault ==
    (NumClusters > 0 /\ NoneMarkedDefault(rawConfig)) =>
        /\ ret.op = "GetDefaultClient" =>
              /\ ret.err = Nil
              /\ Len(ret.client) = 1
              /\ ret.client[1].Config.Name = rawConfig.Clusters[1].Name
        /\ ret.op = "ListClusters" =>
              \A j \in DOMAIN ret.statuses :
                 ret.statuses[j].IsDefault <=>
                    (ret.statuses[j].Name = rawConfig.Clusters[1].Name)

\* C10 amended: when the file marks no cluster default, LoadConfig marks the
\* first one: ListClusters reports IsDefault on it only, and GetDefaultClient
\* returns its client if it is connected and otherwise fails, never returning
\* another cluster's client.  A configuration handed to NewManager without
\* LoadConfig keeps no default: ListClusters reports none and GetDefaultClient
\* returns the client of some connected cluster.
C10_FirstEntryDefaultAfterLoadConfig ==
    (NumClusters > 0 /\ NoneMarkedDefault(rawConfig)) =>
        LET first == rawConfig.Clusters[1].Name IN
        /\ (origin = "LoadConfig" /\ ret.op = "ListClusters") =>
              \A j \in DOMAIN ret.statuses :
                 ret.statuses[j].IsDefault <=> (ret.statuses[j].Name = first)
        /\ (origin = "LoadConfig" /\ ret.op = "GetDefaultClient") =>
              IF clients[first].Connected
              THEN ret.err = Nil /\ ret.client = <<clients[first]>>
              ELSE ret.err # Nil /\ ret.client = Nil
        /\ (origin = "direct" /\ ret.op = "ListClusters") =>
              \A j \in DOMAIN ret.statuses : ~ret.statuses[j].IsDefault
        /\ (origin = "direct" /\ ret.op = "GetDefaultClient") =>
              /\ ret.err = Nil
              /\ \E n \in ConnectedNames : ret.client = <<clients[n]>>

\* After LoadConfig on a file with two clusters and no default mark, both
\* connected, GetDefaultClient has returned the first one's client.
C10_WitnessFirstOfTwoReturned ==
    /\ origin = "LoadConfig"
    /\ NumClusters = 2
    /\ NoneMarkedDefault(rawConfig)
    /\ ConnectedNames = ConfiguredNames
    /\ ret.op = "GetDefaultClient"
    /\ ret.err = Nil
    /\ ret.client = <<clients[rawConfig.Clusters[1].Name]>>

\* ------------------------------------- properties of DeployToMultipleClusters

\* The workers whose target is the name n.
DeployWorkersOf(n) == { i \in DOMAIN dcall.clusterNames : dcall.clusterNames[i] = n }

\* Worker i has come back from DeployToCluster.
DeployAttempted(i) == dwpc[i] \in {"record", "recorded", "exited"}

\* C3: the map DeployToMultipleClusters returns has the requested names as its
\* keys and no others, and the value under a name is what DeployToCluster
\* returned for that name: for a name whose client lookup fails it is the
\* lookup error of that very name.
C3_ResultsKeyedByOwnTarget ==
    deployRet.returned =>
        /\ DOMAIN deployRet.results = Range(dcall.clusterNames)
        /\ \A n \in DOMAIN deployRet.results :
             /\ \E i \in DeployWorkersOf(n) : deployRet.results[n] = dwerr[i]
             /\ GetClient(clients, n).err # Nil =>
                   deployRet.results[n] =
                      <<"failed to get cluster client for", n>> \o GetClient(clients, n).err

\* A deployment to two different names has returned, nil for one and an
\* error for the other.
C3_WitnessOneNilOneError ==
    /\ deployRet.returned
    /\ Len(dcall.clusterNames) = 2
    /\ dcall.clusterNames[1] # dcall.clusterNames[2]
    /\ \E n, m \in DOMAIN deployRet.results :
         deployRet.results[n] = Nil /\ deployRet.results[m] # Nil

\* C4: DeployToCluster is entered at most once per requested target and, by
\* the time the call returns, exactly once, whatever the other targets'
\* outcomes; it sends its one Create or Update exactly when its own checks
\* pass; and once a target's deployment has succeeded the remote object
\* stays in place with the manifest's image.
C4_EachTargetAttemptedOnce ==
    \A i \in DOMAIN calls :
        /\ calls[i] <= 1
        /\ writes[i] <= calls[i]
        /\ deployRet.returned =>
              /\ calls[i] = 1
              /\ writes[i] = 1 <=>
                    deployPrecheck(clients, dcall.clusterNames[i], dcall.yamlContent) = Nil
        /\ (DeployAttempted(i) /\ dwerr[i] = Nil) =>
              /\ remote[dcall.clusterNames[i]].exists
              /\ remote[dcall.clusterNames[i]].image = dcall.yamlContent.image

\* A deployment has returned after one target failed at its write and the
\* other target's write was applied.
C4_WitnessFailureBesideAppliedWrite ==
    /\ deployRet.returned
    /\ \E i, j \in DOMAIN dwerr :
         /\ dcall.clusterNames[i] # dcall.clusterNames[j]
         /\ dwerr[i] # Nil /\ writes[i] = 1
         /\ dwerr[j] = Nil /\ writes[j] = 1
         /\ remote[dcall.clusterNames[j]].image = dcall.yamlContent.image

\* ------------------------------------ properties of ListDeployments / ListPods

\* Whether an entry of the returned collection stands for a failed cluster.
ErrorMarked(op, e) ==
    IF op = "ListDeployments"
    THEN e.Error # <<>>
    ELSE /\ e.Name = "error"
         /\ Len(e.Status) > 0
         /\ e.Status[1] \in {"Failed to get cluster client", "Failed to list pods"}

\* What cluster n holds of the kind the listing asks for, in the namespace.
RemoteItems(op, n, namespace) ==
    IF n \notin Range(NamePool) THEN <<>>
    ELSE InNamespace(IF op = "ListDeployments" THEN RemoteDeployments[n]
                     ELSE RemotePods[n], namespace)

\* The workers whose target is n, and those of them whose query failed.
QueryWorkersOf(n) == { i \in DOMAIN clusterNames : clusterNames[i] = n }

QueryFailedOf(n) == { i \in QueryWorkersOf(n) : qwout[i] # "listed" }

\* The entries returned for cluster n: the error-marked ones, and the ones
\* that carry the item named name.
ErrorEntriesOf(n) ==
    { j \in DOMAIN queryRet.items :
        /\ queryRet.items[j].ClusterName = n
        /\ ErrorMarked(qcall.op, queryRet.items[j]) }

ItemEntriesOf(n, name) ==
    { j \in DOMAIN queryRet.items :
        /\ queryRet.items[j].ClusterName = n
        /\ ~ErrorMarked(qcall.op, queryRet.items[j])
        /\ queryRet.items[j].Name = name }

\* C5: for a listing over explicit targets, the returned collection holds one
\* error-marked entry carrying the cluster name per failing target, every
\* item of every succeeding target, and nothing else.
C5_FailedTargetsMarkedNoneOmitted ==
    (queryRet.returned /\ Len(qcall.clusterNames) > 0) =>
        /\ clusterNames = qcall.clusterNames
        /\ \A n \in Range(clusterNames) :
             LET items == RemoteItems(qcall.op, n, qcall.namespace)
                 ok    == Cardinality(QueryWorkersOf(n) \ QueryFailedOf(n))
             IN  /\ Cardinality(ErrorEntriesOf(n)) = Cardinality(QueryFailedOf(n))
                 /\ \A x \in DOMAIN items :
                      Cardinality(ItemEntriesOf(n, items[x].Name)) = ok
                 /\ Cardinality({ j \in DOMAIN queryRet.items :
                                    queryRet.items[j].ClusterName = n })
                      = Cardinality(QueryFailedOf(n)) + ok * Len(items)
        /\ \A j \in DOMAIN queryRet.items :
             queryRet.items[j].ClusterName \in Range(clusterNames)

\* A listing over two explicit targets has returned, one failed and one
\* listed at least one item.
C5_WitnessOneOfTwoFails ==
    /\ queryRet.returned
    /\ Len(qcall.clusterNames) = 2
    /\ \E i, j \in DOMAIN qwout :
         /\ qwout[i] # "listed"
         /\ qwout[j] = "listed"
         /\ Len(qwres[j]) > 0
    /\ Len(queryRet.items) >= 2

\* C6: ListDeployments and ListPods return a nil error for every target
\* list; a target that failed is present in the collection as an
\* error-marked entry under its name.
C6_QueryReturnsNilError ==
    queryRet.returned =>
        /\ queryRet.err = Nil
        /\ \A i \in DOMAIN qwout :
             qwout[i] # "listed" =>
                \E j \in DOMAIN queryRet.items :
                   /\ queryRet.items[j].ClusterName = clusterNames[i]
                   /\ ErrorMarked(qcall.op, queryRet.items[j])

\* A listing has returned after one target's client lookup failed and
\* another's List call failed.
C6_WitnessLookupAndListFailures ==
    /\ queryRet.returned
    /\ queryRet.err = Nil
    /\ \E i, j \in DOMAIN qwout :
         qwout[i] = "lookup failed" /\ qwout[j] = "list failed"

\* C7: with no names given, the targets are the connected clusters, each
\* once; every connected cluster is queried and its items are all returned
\* (none when it holds none); no entry stands for an unconnected cluster.
C7_EmptyTargetsMeanConnectedClusters ==
    (queryRet.returned /\ Len(qcall.clusterNames) = 0) =>
        /\ Range(clusterNames) = ConnectedNames
        /\ Len(clusterNames) = Cardinality(ConnectedNames)
        /\ \A i \in DOMAIN clusterNames : qwout[i] \in {"listed", "list failed"}
        /\ \A j \in DOMAIN queryRet.items :
             queryRet.items[j].ClusterName \in ConnectedNames
        /\ \A n \in ConnectedNames :
             LET items == RemoteItems(qcall.op, n, qcall.namespace) IN
             QueryFailedOf(n) = {} =>
                /\ \A x \in DOMAIN items :
                     Cardinality(ItemEntriesOf(n, items[x].Name)) = 1
                /\ Cardinality({ j \in DOMAIN queryRet.items :
                                   queryRet.items[j].ClusterName = n }) = Len(items)

\* ListDeployments with no names has returned over two connected clusters,
\* both listed, one of them holding no deployment.
C7_WitnessTwoConnectedOneEmpty ==
    /\ queryRet.returned
    /\ qcall.op = "ListDeployments"
    /\ Len(qcall.clusterNames) = 0
    /\ Cardinality(ConnectedNames) = 2
    /\ \A i \in DOMAIN qwout : qwout[i] = "listed"
    /\ \E i \in DOMAIN qwres : Len(qwres[i]) = 0
    /\ Len(queryRet.items) > 0

\* ------------------------------------------------ properties of all three

\* C8: NewManager, the listings and DeployToMultipleClusters return only
\* after every goroutine they started has finished and every result those
\* goroutines produced has been collected.
C8_ReturnOnlyAfterAllWorkersFinished ==
    /\ newManagerRet.returned =>
          /\ \A i \in DOMAIN wpc : wpc[i] = "exited"
          /\ connectionResults = <<>>
          /\ DOMAIN clients = ConfiguredNames
    /\ queryRet.returned =>
          /\ \A i \in DOMAIN qwpc : qwpc[i] = "exited"
          /\ resultChan = <<>>
          /\ Len(queryRet.items) = SumSeq([ i \in DOMAIN qwres |-> Len(qwres[i]) ])
    /\ deployRet.returned =>
          /\ \A i \in DOMAIN dwpc : dwpc[i] = "exited"
          /\ \A i \in DOMAIN dwpc : dcall.clusterNames[i] \in DOMAIN deployRet.results

\* A deployment to two targets has returned, over a registry NewManager
\* returned.
C8_WitnessDeployReturnedAfterTwoWorkers ==
    /\ newManagerRet.returned
    /\ deployRet.returned
    /\ Len(dwpc) = 2
    /\ \A i \in DOMAIN dwpc : dwpc[i] = "exited"

\* ------------------------------------------------------ GetClient's answers

\* C11: GetClient returns a client only for a name that is in m.clients and
\* connected, and then the client's Connected is true; a name that is not in
\* m.clients gets the not-found error; a name whose client is not connected
\* gets the not-connected error, which carries that client's connection
\* error.
C11_GetClientDistinguishesFailures ==
    ret.op = "GetClient" =>
        IF ret.arg \notin DOMAIN clients
        THEN /\ ret.client = Nil
             /\ ret.err = <<"cluster not found in configuration", ret.arg>>
        ELSE IF ~clients[ret.arg].Connected
        THEN /\ ret.client = Nil
             /\ ret.err = <<"cluster is not connected", ret.arg>> \o clients[ret.arg].Error
             /\ clients[ret.arg].Error # Nil
        ELSE /\ ret.err = Nil
             /\ ret.client = <<clients[ret.arg]>>
             /\ ret.client[1].Connected
             /\ ret.arg \in ConfiguredNames

\* GetClient has refused a configured cluster whose attempt failed, with the
\* not-connected error.
C11_WitnessConfiguredButUnconnected ==
    /\ ret.op = "GetClient"
    /\ ret.arg \in ConfiguredNames
    /\ ~clients[ret.arg].Connected
    /\ ret.client = Nil
    /\ ret.err[1] = "cluster is not connected"

\* -------------------------------------------- properties of DeployToCluster

\* C12 as stated: DeployToCluster sends an Update, with the resource version
\* its Get returned, exactly when the Get found the object, and a Create
\* exactly when the Get reported not-found; a Get that failed for another
\* reason is followed by no Create.
C12_Original_CreateOnlyAfterNotFound ==
    \A i \in DOMAIN dwpc :
        /\ (dwpc[i] = "updating" \/ dwkind[i] = "update") =>
              /\ dwget[i].outcome = "found"
              /\ dwrv[i] = dwget[i].resourceVersion
        /\ (dwpc[i] = "creating" \/ dwkind[i] = "create") =>
              dwget[i].outcome = "not found"
        /\ dwget[i].outcome = "found" =>
              dwpc[i] = "updating" \/ dwkind[i] = "update"
        /\ dwget[i].outcome = "not found" =>
              dwpc[i] = "creating" \/ dwkind[i] = "create"
        /\ dwget[i].outcome = "error" =>
              dwpc[i] # "creating" /\ dwkind[i] # "create"

\* A Create was sent after a Get that failed for a reason other than
\* not-found, for an object the cluster holds, and was rejected.
C12_WitnessCreateAfterFailedGet ==
    \E i \in DOMAIN dwpc :
        /\ dwget[i].outcome = "error"
        /\ dwkind[i] = "create"
        /\ remote[dcall.clusterNames[i]].exists
        /\ dwerr[i] = <<"failed to create deployment", "already exists">>

\* The deployment is being repeated after a first call that wrote the object.
RepeatedAfterSuccess ==
    /\ dprev # <<>>
    /\ dprev[1].errs[1] = Nil
    /\ dprev[1].kinds[1] \in {"create", "update"}

\* C13 as stated: when DeployToCluster is called again on the same cluster
\* with the same manifest, after a first call that created or updated the
\* object and with no other writer in between, the second call sends an
\* Update and never a Create, and the cluster keeps the one object.
C13_Original_SecondCallUpdates ==
    RepeatedAfterSuccess =>
        /\ remote[dcall.clusterNames[1]].exists
        /\ dwpc[1] # "creating"
        /\ dwkind[1] # "create"
        /\ dwget[1].outcome # "none" => (dwpc[1] = "updating" \/ dwkind[1] = "update")

\* The second call sent a Create for the object the first call had written,
\* because its Get failed, and reported the rejection.
C13_WitnessSecondCallCreates ==
    /\ RepeatedAfterSuccess
    /\ dwget[1].outcome = "error"
    /\ dwkind[1] = "create"
    /\ deployRet.returned
    /\ deployRet.results[dcall.clusterNames[1]] # Nil

\* C14: when the object's resource version is no longer the one the Get
\* returned at the moment DeployToCluster sends its Update, the Update is
\* rejected: the remote object stays as the other writer left it, the
\* worker's outcome is a non-nil error, and the worker sends no further
\* write.
C14_StaleUpdateRejected ==
    [][ \A i \in DOMAIN dwpc :
          /\ ( /\ dwpc[i] = "updating"
               /\ dwpc'[i] = "record"
               /\ remote[dcall.clusterNames[i]].resourceVersion # dwrv[i] ) =>
                  /\ remote' = remote
                  /\ dwerr'[i] # Nil
                  /\ writes'[i] = 1
          /\ dwkind[i] # "none" =>
                  /\ dwkind'[i] = dwkind[i]
                  /\ writes'[i] = writes[i]
                  /\ dwerr'[i] = dwerr[i] ]_vars

\* A deployment to one cluster has returned a conflict error, and the
\* cluster holds the other writer's image.
C14_WitnessConflictAfterExternalWrite ==
    /\ deployRet.returned
    /\ Len(dcall.clusterNames) = 1
    /\ dwkind[1] = "update"
    /\ dwerr[1] = <<"failed to update deployment", "conflict">>
    /\ deployRet.results[dcall.clusterNames[1]] # Nil
    /\ remote[dcall.clusterNames[1]].image = ExternalImage

\* Where target i's mutation stands, in the terms of the state machine.
Phase(i) ==
    CASE dwpc[i] = "unborn"   -> "NotStarted"
      [] dwpc[i] = "running"  -> "Connecting"
      [] dwpc[i] = "reading"  -> "Reading"
      [] dwpc[i] = "creating" -> "Creating"
      [] dwpc[i] = "updating" -> "Updating"
      [] OTHER -> IF dwerr[i] = Nil THEN "Succeeded" ELSE "Failed"

\* The transitions of the state machine: forward only, a failure of the
\* lookup or of the manifest checks leading from Connecting to Failed.
PhaseEdges ==
    { <<"NotStarted", "Connecting">>, <<"Connecting", "Reading">>,
      <<"Connecting", "Failed">>, <<"Reading", "Creating">>,
      <<"Reading", "Updating">>, <<"Creating", "Succeeded">>,
      <<"Creating", "Failed">>, <<"Updating", "Succeeded">>,
      <<"Updating", "Failed">> }

PhaseStep(i) ==
    /\ Phase(i)' # Phase(i) => <<Phase(i), Phase(i)'>> \in PhaseEdges
    /\ Phase(i) \in {"Succeeded", "Failed"} => Phase(i)' = Phase(i)
    /\ writes'[i] # writes[i] =>
          /\ Phase(i) \in {"Creating", "Updating"}
          /\ dwget[i].outcome # "none"
          /\ writes[i] = 0

\* C15: per target of a DeployToMultipleClusters call the mutation moves only
\* forward: NotStarted, Connecting, Reading, one of Creating and Updating,
\* one of Succeeded and Failed; Succeeded and Failed are never left; a write
\* is sent once, after the Get; a target that succeeded went through its Get
\* and one write; and once the call has begun every target reaches Succeeded
\* or Failed and the call returns.
C15_MutationMovesForwardToTerminal ==
    /\ [][ \A i \in DOMAIN dwpc : PhaseStep(i) ]_vars
    /\ [](\A i \in DOMAIN dwpc :
            Phase(i) = "Succeeded" =>
               dwget[i].outcome # "none" /\ dwkind[i] # "none" /\ writes[i] = 1)
    /\ (dpc = "spawn") ~>
          (dpc = "returned" /\ \A i \in DOMAIN dwpc : Phase(i) \in {"Succeeded", "Failed"})

\* A deployment to two targets has returned: one failed at its lookup, the
\* other went through Get and Create and succeeded.
C15_WitnessOneFailedEarlyOneSucceeded ==
    /\ deployRet.returned
    /\ \E i, j \in DOMAIN dwpc :
         /\ Phase(i) = "Failed" /\ dwget[i].outcome = "none"
         /\ Phase(j) = "Succeeded" /\ dwkind[j] = "create"

\* The manifest of the call parses as YAML and declares no kind, or a kind
\* other than Deployment.
ManifestOfOtherKind ==
    /\ dcall.op # "none"
    /\ dcall.yamlContent.parses
    /\ dcall.yamlContent.kind # <<"Deployment">>

\* C16: for a manifest that declares no kind or a kind other than
\* Deployment, DeployToCluster returns a non-nil error for every target and
\* sends no Get, Create or Update, so the remote objects stay as they were;
\* on a connected cluster the error is the missing-kind or the
\* unsupported-kind error.
C16_OtherKindsRefusedWithoutRemoteCall ==
    ManifestOfOtherKind =>
        /\ remote = RemoteObjects
        /\ \A i \in DOMAIN dwpc :
             /\ dwget[i] = NoGet
             /\ dwkind[i] = "none"
             /\ writes[i] = 0
             /\ dwpc[i] \notin {"reading", "updating", "creating"}
             /\ DeployAttempted(i) =>
                   /\ dwerr[i] # Nil
                   /\ GetClient(clients, dcall.clusterNames[i]).err = Nil =>
                         dwerr[i] = IF dcall.yamlContent.kind = Nil
                                    THEN <<"YAML must specify a 'kind' field">>
                                    ELSE <<"resource kind is not supported yet">>
                                            \o dcall.yamlContent.kind
        /\ deployRet.returned =>
              \A n \in DOMAIN deployRet.results : deployRet.results[n] # Nil

\* A Service manifest was deployed to a connected cluster and the call
\* returned the unsupported-kind error for it.
C16_WitnessServiceRefused ==
    /\ deployRet.returned
    /\ dcall.yamlContent.kind = <<"Service">>
    /\ \E n \in DOMAIN deployRet.results :
         /\ n \in ConnectedNames
         /\ deployRet.results[n] = <<"resource kind is not supported yet", "Service">>

\* ------------------------------------------- properties of the status branch

\* C17 as stated: for desired D and ready R the status is Ready if R = D,
\* Partial if 0 < R < D, NotReady if R = 0, and Unknown for every other
\* pair, R > D and R < 0 among them.
C17_Original_StatusMatchesDecisionTable ==
    qpc = "classified" =>
        LET D == qcall.Replicas
            R == qcall.ReadyReplicas
        IN  queryRet.status =
               IF R = D THEN "Ready"
               ELSE IF 0 < R /\ R < D THEN "Partial"
               ELSE IF R = 0 THEN "NotReady"
               ELSE "Unknown"

\* A deployment with more ready replicas than desired was classified Partial.
C17_WitnessMoreReadyThanDesiredIsPartial ==
    /\ qpc = "classified"
    /\ qcall.ReadyReplicas > qcall.Replicas
    /\ qcall.Replicas >= 0
    /\ queryRet.status = "Partial"

\* ----------------------------------------- properties of NewManager's error

\* The places in NewManager's error where a failure record for cluster n
\* starts.
FailureRecordsOf(n) ==
    { p \in 1..(Len(newManagerRet.err) - 2) :
        /\ newManagerRet.err[p] = "Failed to connect to"
        /\ newManagerRet.err[p + 1] = n }

\* C18: when NewManager fails because no cluster connected, its error holds
\* exactly one failure record per configured cluster, naming the cluster and
\* carrying the error of that cluster's own attempt, in whatever order the
\* attempts completed.
C18_ErrorAggregatesEveryFailure ==
    (newManagerRet.returned /\ newManagerRet.err # Nil) =>
        /\ newManagerRet.err[1] = "failed to connect to clusters"
        /\ newManagerRet.err[2] = "failed to connect to any clusters"
        /\ \A i \in DOMAIN config.Clusters :
             /\ Cardinality(FailureRecordsOf(config.Clusters[i].Name)) = 1
             /\ \A p \in FailureRecordsOf(config.Clusters[i].Name) :
                  <<newManagerRet.err[p + 2]>> = wres[i][1].Error
        /\ Cardinality({ p \in DOMAIN newManagerRet.err :
                           newManagerRet.err[p] = "Failed to connect to" }) = NumClusters

\* NewManager has failed for two clusters whose attempts failed for
\* different reasons.
C18_WitnessTwoDifferentFailures ==
    /\ newManagerRet.returned
    /\ newManagerRet.err # Nil
    /\ NumClusters = 2
    /\ wres[1][1].Error # wres[2][1].Error
    /\ \A i \in DOMAIN config.Clusters :
         Cardinality(FailureRecordsOf(config.Clusters[i].Name)) = 1

\* ----------------------------------------- properties of an empty cluster list

\* C19: a configuration with no clusters never yields a registry:
\* validateConfig rejects it whatever files exist, so LoadConfig fails with
\* the no-clusters error and the program stops; and NewManager called on it
\* returns an error and no manager.
C19_EmptyClusterListRejected ==
    Len(rawConfig.Clusters) = 0 =>
        /\ \A fs \in SUBSET AllKubeConfigPaths :
             validateConfig(rawConfig, fs) = <<"no clusters defined in configuration">>
        /\ ~loadRet.loaded
        /\ origin # "LoadConfig"
        /\ loadRet.err # Nil =>
              /\ loadRet.err = <<"invalid configuration",
                                 "no clusters defined in configuration">>
              /\ pc = "exit"
        /\ newManagerRet.returned =>
              /\ ~newManagerRet.manager
              /\ newManagerRet.err # Nil
        /\ pc # "ready"
        /\ clients = EmptyMap

\* NewManager was called on a configuration without clusters and returned
\* its error.
C19_WitnessNewManagerOnEmptyConfig ==
    /\ Len(rawConfig.Clusters) = 0
    /\ origin = "direct"
    /\ newManagerRet.returned
    /\ ~newManagerRet.manager
    /\ newManagerRet.err = <<"failed to connect to clusters",
                             "failed to connect to any clusters">>

\* ------------------------------------------------ properties of validateConfig

ProbeFailureLinesOf(n) ==
    { p \in 1..(Len(ret.err) - 1) : ret.err[p] = "Cluster" /\ ret.err[p + 1] = n }

\* C21: TestConnections probes every client whose Connected is true, each
\* once, and no client whose Connected is false; it returns nil if and only
\* if every probe succeeded; otherwise it returns one error that holds one
\* line for every cluster whose probe failed, and none for any other
\* cluster: a failed probe does not end the loop.
C21_TestConnectionsProbesConnectedReportsAll ==
    ret.op = "TestConnections" =>
        /\ Range(ret.probed) = ConnectedNames
        /\ Len(ret.probed) = Cardinality(ConnectedNames)
        /\ (ret.err = Nil) <=> (ret.failing \cap ConnectedNames = {})
        /\ ret.err # Nil =>
              /\ ret.err[1] = "connection test failed"
              /\ \A n \in DOMAIN clients :
                   Cardinality(ProbeFailureLinesOf(n)) =
                      IF n \in ret.failing \cap ConnectedNames THEN 1 ELSE 0

\* TestConnections has returned after the probes of two connected clusters
\* both failed, and its error names both.
C21_WitnessTwoProbesFailed ==
    /\ ret.op = "TestConnections"
    /\ Cardinality(ret.failing \cap ConnectedNames) = 2
    /\ ret.err # Nil
    /\ \A n \in ConnectedNames : Cardinality(ProbeFailureLinesOf(n)) = 1

\* ------------------------------------------- properties of the deploy command

\* The clusters the --clusters flag of the command names.
NamedTargets == parseClusterList(cmd.flags.clusters)

C23_Original_ClusterListUnchanged ==
    origin = "LoadConfig" =>
        /\ config.DefaultNamespace =
              IF rawConfig.DefaultNamespace = "" THEN "default"
              ELSE rawConfig.DefaultNamespace
        /\ config.Timeout = IF rawConfig.Timeout = 0 THEN 30 ELSE rawConfig.Timeout
        /\ config.Clusters = rawConfig.Clusters
        /\ setDefaults(config) = config

\* C23 amended: LoadConfig turns an unset defaultNamespace into "default"
\* and a zero timeout into 30 and returns configured values unchanged; the
\* cluster list keeps its entries, their order and their fields, except
\* that the first entry is marked default when the file marks none; and a
\* second setDefaults changes nothing.
C23_DefaultsOnlyWhereAbsent ==
    origin = "LoadConfig" =>
        /\ config.DefaultNamespace =
              IF rawConfig.DefaultNamespace = "" THEN "default"
              ELSE rawConfig.DefaultNamespace
        /\ config.Timeout = IF rawConfig.Timeout = 0 THEN 30 ELSE rawConfig.Timeout
        /\ Len(config.Clusters) = Len(rawConfig.Clusters)
        /\ \A i \in DOMAIN rawConfig.Clusters :
             /\ config.Clusters[i].Name = rawConfig.Clusters[i].Name
             /\ config.Clusters[i].Context = rawConfig.Clusters[i].Context
             /\ config.Clusters[i].KubeConfig = rawConfig.Clusters[i].KubeConfig
             /\ config.Clusters[i].IsDefault <=>
                   \/ rawConfig.Clusters[i].IsDefault
                   \/ i = 1 /\ NoneMarkedDefault(rawConfig)
        /\ ~NoneMarkedDefault(rawConfig) => config.Clusters = rawConfig.Clusters
        /\ setDefaults(config) = config

\* LoadConfig has returned a file that gives namespace "test" and timeout
\* 60 unchanged, with its first cluster marked because none was.
C23_WitnessExplicitValuesKeptFirstMarked ==
    /\ origin = "LoadConfig"
    /\ rawConfig.DefaultNamespace = "test" /\ config.DefaultNamespace = "test"
    /\ rawConfig.Timeout = 60 /\ config.Timeout = 60
    /\ Len(rawConfig.Clusters) = 2
    /\ NoneMarkedDefault(rawConfig)
    /\ config.Clusters[1].IsDefault
    /\ ~config.Clusters[2].IsDefault

\* ------------------------------------- properties of the clients after NewManager

\* C24: once NewManager has returned, no GetClient, GetDefaultClient,
\* ListClusters, TestConnections, listing or deployment changes a client's
\* Connected or Error: every client stays what its connection attempt
\* produced.  A client whose probe failed in TestConnections is still
\* Connected, is still returned by GetClient, is still reported connected by
\* ListClusters, and is still a target of a listing called without names.
C24_ClientsReadOnlyAfterNewManager ==
    /\ [][clients' = clients]_vars
    /\ [](\A i \in DOMAIN config.Clusters :
             clients[config.Clusters[i].Name] = wres[i][1])
    /\ [](\A n \in probeLog :
             /\ clients[n].Connected
             /\ clients[n].Error = Nil)
    /\ []((ret.op = "GetClient" /\ ret.arg \in probeLog) =>
             /\ ret.err = Nil
             /\ ret.client = <<clients[ret.arg]>>)
    /\ [](ret.op = "ListClusters" =>
             \A j \in DOMAIN ret.statuses :
                ret.statuses[j].Name \in probeLog => ret.statuses[j].Connected)
    /\ []((qcall.op # "none" /\ Len(qcall.clusterNames) = 0) =>
             probeLog \subseteq Range(clusterNames))

\* After a TestConnections call in which a cluster's probe failed, GetClient
\* has returned that cluster's client and a listing without names has
\* returned with that cluster among its targets.
C24_WitnessProbedFailedStillServed ==
    /\ probeLog # {}
    /\ ret.op = "GetClient"
    /\ ret.arg \in probeLog
    /\ ret.err = Nil
    /\ queryRet.returned
    /\ Len(qcall.clusterNames) = 0
    /\ probeLog \subseteq Range(clusterNames)

\* ------------------------------------------------------ properties of m.mutex

\* The goroutines that hold m.mutex for reading.
ReadLockHolders == { g \in DOMAIN readers : readers[g].pc = "held" }

\* C25: m.clients is written only in NewManager's collecting loop and only
\* while m.mutex is write-locked; once NewManager has returned the write
\* lock is never taken again, so every GetClient, GetDefaultClient,
\* ListClusters and TestConnections that asks for the read lock can have it
\* at once, however many others hold it.
C25_WritesUnderLockDuringNewManagerOnly ==
    /\ [][ clients' # clients =>
             (mutex.w /\ pc = "store" /\ ~newManagerRet.returned) ]_vars
    /\ [][ (mutex'.w /\ ~mutex.w) =>
             (pc = "lock" /\ ~newManagerRet.returned /\ mutex.r = 0) ]_vars
    /\ [](newManagerRet.returned =>
             (~mutex.w /\ pc \notin {"lock", "store", "unlock"}))
    /\ [](\A g \in DOMAIN readers :
             readers[g].pc = "rlock" => (~mutex.w /\ pc # "lock"))
    /\ [](mutex.r = Cardinality(ReadLockHolders))
    /\ [](mutex.w => mutex.r = 0)

\* Two goroutines hold the read lock at the same time, one inside GetClient
\* and one inside TestConnections, on a manager with two clients stored.
C25_WitnessTwoReadLocksHeld ==
    /\ newManagerRet.returned
    /\ Cardinality(DOMAIN clients) = 2
    /\ mutex.r = 2
    /\ \E g, h \in ReadLockHolders :
         readers[g].op = "GetClient" /\ readers[h].op = "TestConnections"

\* ------------------------------------------- properties of the result channels

\* The workers of connectToAllClusters, and of the listing, that have sent.
WorkersSent == { i \in DOMAIN wpc : wpc[i] \in {"sent", "exited"} }

QueryWorkersSent == { i \in DOMAIN qwpc : qwpc[i] \in {"sent", "exited"} }

\* The clients the collecting loop of connectToAllClusters has received.
ClientsReceived == successfulConnections + Len(connectionErrors)

\* C26: in connectToAllClusters and in the listings the channel's capacity
\* is the number of workers and each worker sends once: what the channel
\* buffers plus what has been received is the number of workers that have
\* sent, the buffer never holds more than its capacity, and a worker that
\* is about to send finds room, whether or not the caller has begun to
\* receive.
C26_SendNeverBlocks ==
    /\ ~workloadManager =>
          /\ ChanCap = Len(wpc)
          /\ Len(connectionResults) <= ChanCap
          /\ Len(connectionResults) + ClientsReceived = Cardinality(WorkersSent)
          /\ \A i \in DOMAIN wpc :
               wpc[i] = "send" => Len(connectionResults) < ChanCap
    /\ qpc \in {"spawn", "collect", "returned"} =>
          /\ ResultChanCap = Len(qwpc)
          /\ Len(resultChan) <= ResultChanCap
          /\ Len(resultChan) + qreceived = Cardinality(QueryWorkersSent)
          /\ \A i \in DOMAIN qwpc :
               qwpc[i] = "send" => Len(resultChan) < ResultChanCap

\* Both workers of a listing have sent, and the channel holds both results,
\* before the caller has left the loop that starts the workers.
C26_WitnessChannelFullBeforeCollecting ==
    /\ qpc = "spawn"
    /\ Len(qwpc) = 2
    /\ Len(resultChan) = 2
    /\ qreceived = 0
    /\ QueryWorkersSent = DOMAIN qwpc

\* -------------------------------------------------- properties of termination

\* C27: with every remote call returning and goroutines scheduled fairly,
\* NewManager, the listings and DeployToMultipleClusters each return once
\* called.  No worker waits for another worker: one that is about to send
\* finds the channel open with room, and one that is about to record its
\* result does so, wherever the other workers are; so a target whose remote
\* call is still out does not keep the others from delivering.
C27_CallsReturnUnderFairScheduling ==
    /\ (pc = "spawn") ~> newManagerRet.returned
    /\ (qpc = "spawn") ~> queryRet.returned
    /\ (dpc = "spawn") ~> deployRet.returned
    /\ [](\A i \in DOMAIN wpc :
             wpc[i] = "send" => (Len(connectionResults) < ChanCap /\ ~closed))
    /\ [](\A i \in DOMAIN qwpc :
             qwpc[i] = "send" => (Len(resultChan) < ResultChanCap /\ ~qclosed))
    /\ []((pc = "collect" /\ \E i \in DOMAIN wpc : wpc[i] # "exited") => ~closed)
    /\ []((qpc = "collect" /\ \E i \in DOMAIN qwpc : qwpc[i] # "exited") => ~qclosed)
    /\ []((dpc = "wait" /\ \E i \in DOMAIN dwpc : dwpc[i] # "exited") => dwg > 0)

\* The first target's List call is still out while the second target's
\* worker has finished and the caller has received its result.
C27_WitnessLateTargetOthersDelivered ==
    /\ qpc = "collect"
    /\ Len(qwpc) = 2
    /\ qwpc[1] = "running"
    /\ qwpc[2] = "exited"
    /\ qreceived = 1
    /\ ~qclosed

\* ------------------------------------------- properties of the default cluster

\* The clusters of the loaded configuration that are marked default.
MarkedDefault == { i \in DOMAIN config.Clusters : config.Clusters[i].IsDefault }

\* C28: a configuration LoadConfig returned has at least one cluster marked
\* default, and GetDefaultClient answers for the first marked cluster in
\* the order of the file and for no other: it returns that cluster's client
\* or that cluster's error, also when a later cluster is marked as well.
C28_FirstMarkedIsTheDefault ==
    origin = "LoadConfig" =>
        /\ MarkedDefault # {}
        /\ ret.op = "GetDefaultClient" =>
              \E d \in MarkedDefault :
                 /\ \A j \in MarkedDefault : d <= j
                 /\ LET name == config.Clusters[d].Name IN
                      IF clients[name].Connected
                      THEN ret.err = Nil /\ ret.client = <<clients[name]>>
                      ELSE /\ ret.client = Nil
                           /\ ret.err = <<"cluster is not connected", name>>
                                            \o clients[name].Error

\* The file marks both of its clusters default, both are connected, and
\* GetDefaultClient has returned the first one's client.
C28_WitnessTwoMarkedFirstReturned ==
    /\ origin = "LoadConfig"
    /\ NumClusters = 2
    /\ rawConfig.Clusters[1].IsDefault /\ rawConfig.Clusters[2].IsDefault
    /\ ConnectedNames = ConfiguredNames
    /\ ret.op = "GetDefaultClient"
    /\ ret.client = <<clients[config.Clusters[1].Name]>>

\* ------------------------------------- properties of reportDeploymentResults

\* Whether a target's error makes it a failure: it is not nil and its
\* message holds neither "already exists" nor "no changes".
IsFailure(err) ==
    /\ err # Nil
    /\ \A i \in DOMAIN err : err[i] \notin {"already exists", "no changes"}

\* C29: for every map of outcomes reportDeploymentResults prints one line
\* per target and puts each target in exactly one of its three classes, so
\* that successes, warnings and failures add up to the number of entries;
\* every failure is listed under its cluster's name with its error, beside
\* the count of successes; and the error it returns is non-nil if and only
\* if some target's error is a failure.
C29_ReportClassifiesEachTargetOnce ==
    cmd.pc = "reported" =>
        LET r == cmd.report[1]
            m == cmd.results
            listed(list, n) == { i \in DOMAIN list : list[i] = <<n>> \o m[n] }
        IN  /\ r.successCount + Len(r.warnings) + Len(r.failures) = Cardinality(DOMAIN m)
            /\ r.successCount = Cardinality({ n \in DOMAIN m : m[n] = Nil })
            /\ Len(r.lines) = Cardinality(DOMAIN m)
            /\ \A n \in DOMAIN m :
                 /\ Cardinality({ i \in DOMAIN r.lines :
                                    r.lines[i] = [ name |-> n, err |-> m[n] ] }) = 1
                 /\ Cardinality(listed(r.failures, n)) = IF IsFailure(m[n]) THEN 1 ELSE 0
                 /\ Cardinality(listed(r.warnings, n)) =
                       IF m[n] # Nil /\ ~IsFailure(m[n]) THEN 1 ELSE 0
            /\ (cmd.err # Nil) <=> (\E n \in DOMAIN m : IsFailure(m[n]))
            /\ cmd.err # Nil =>
                  r.errCounts = << Cardinality({ n \in DOMAIN m : IsFailure(m[n]) }),
                                   Cardinality(DOMAIN m) >>

\* The report on a map with one success, one "already exists" and one
\* conflict has listed the conflict and returned an error.
C29_WitnessSuccessWarningFailure ==
    /\ cmd.pc = "reported"
    /\ Cardinality(DOMAIN cmd.results) = 3
    /\ cmd.report[1].successCount = 1
    /\ Len(cmd.report[1].warnings) = 1
    /\ Len(cmd.report[1].failures) = 1
    /\ cmd.report[1].failures[1][3] = "conflict"
    /\ cmd.err # Nil

\* ----------------------------------------- properties of closing the channels

\* C30: in connectToAllClusters and in the listings the channel is closed
\* once, by the closing goroutine, when every worker has sent and called
\* wg.Done; no worker is left to send on the closed channel; and the caller
\* returns only with the channel closed and empty, having received as many
\* results as workers were started.
C30_ClosedOnceAfterAllSends ==
    /\ [][ closed' # closed =>
             /\ ~closed /\ cpc = "closing" /\ cpc' = "exited"
             /\ \A i \in DOMAIN wpc : wpc[i] = "exited" ]_vars
    /\ [][ qclosed' # qclosed =>
             /\ ~qclosed /\ qcpc = "closing" /\ qcpc' = "exited"
             /\ \A i \in DOMAIN qwpc : qwpc[i] = "exited" ]_vars
    /\ [](\A i \in DOMAIN wpc : wpc[i] \notin {"sent", "exited"} => ~closed)
    /\ [](\A i \in DOMAIN qwpc : qwpc[i] \notin {"sent", "exited"} => ~qclosed)
    /\ []((newManagerRet.returned /\ ~workloadManager) =>
             /\ closed /\ connectionResults = <<>>
             /\ ClientsReceived = Len(wpc)
             /\ Len(wpc) = NumClusters)
    /\ [](queryRet.returned =>
             /\ qclosed /\ resultChan = <<>>
             /\ qreceived = Len(qwpc)
             /\ Len(qwpc) = Len(clusterNames))

\* A listing over two targets has returned: the channel was closed after
\* both workers had sent, and the caller received two results.
C30_WitnessTwoResultsReceivedThenClosed ==
    /\ queryRet.returned
    /\ Len(qwpc) = 2
    /\ qreceived = 2
    /\ qclosed
    /\ qcpc = "exited"

====
